---- MODULE Spec2Model ----
(***************************************************************************)
(* Model of the CoAP connection engine of uramaki-io/coap (conn.go): the   *)
(* Conn read/write/close paths, the single-owner event loop, the           *)
(* RetransmitQueue, the Reader buffer handling, and the MessageIDSequence  *)
(* source (header.go).                                                     *)
(*                                                                         *)
(* Time is an integer count of abstract duration units; a unit stands for  *)
(* one second in the RFC 7252 scenarios.                                   *)
(***************************************************************************)
EXTENDS Integers, Sequences, FiniteSets, TLC

\* ------------------------------------------------------------------------
\* Bounds of the model
\* ------------------------------------------------------------------------
\* latest instant the clock reaches
MaxTime == 4
\* number of Conn.Read calls issued by the reading goroutine
MaxReads == 1
\* number of MessageIDSource calls issued per run of the sequence model
MaxCalls == 4
\* longest byte sequence handed to the integer and extend decoders
MaxWireLen == 3
\* largest option collection a SetAll call may produce
MaxStored == 3
\* number of values passed to one SetAll call
MaxValues == 2
\* number of options in the bytes a peer sends to Options.Decode
MaxItems == 2
\* number of entries a direct caller keeps in a RetransmitQueue
MaxQueued == 2

\* ------------------------------------------------------------------------
\* Program constants
\* ------------------------------------------------------------------------
Confirmable == 0
NonConfirmable == 1
Acknowledgement == 2
Reset == 3
ProtocolVersion == 1
TokenMaxLength == 8
HeaderLength == 4
PayloadMarker == 255
\* capacity of the add and remove channels, make(chan ..., 1)
ChanCap == 1

Min(a, b) == IF a < b THEN a ELSE b
\* conversion to uint8 and to uint16
U8(x) == x % 256
U16(x) == x % 65536

\* ------------------------------------------------------------------------
\* RetransmitOptions values a caller passes to NewConn.  ACKRandomFactor is
\* the float64 FactorNum / FactorDen.
\* ------------------------------------------------------------------------
\* the zero value of RetransmitOptions
ZeroOptions ==
  [ACKTimeout |-> 0, FactorNum |-> 0, FactorDen |-> 1, MaxRetransmit |-> 0,
   MaxTransmitWait |-> 0, MaxTransmitSpan |-> 0, MaxMessageLength |-> 0]
\* scenario 7 of the specification: deterministic RFC 7252 timeline
TimelineOptions ==
  [ACKTimeout |-> 2, FactorNum |-> 0, FactorDen |-> 1, MaxRetransmit |-> 4,
   MaxTransmitWait |-> 93, MaxTransmitSpan |-> 45, MaxMessageLength |-> 16]
\* a short schedule bounded by MAX_RETRANSMIT: the timeout is always 1
RetryOptions ==
  [ACKTimeout |-> 1, FactorNum |-> 1, FactorDen |-> 1, MaxRetransmit |-> 1,
   MaxTransmitWait |-> 9, MaxTransmitSpan |-> 9, MaxMessageLength |-> 16]
\* a short schedule bounded by MAX_TRANSMIT_SPAN and MAX_TRANSMIT_WAIT, with
\* a timeout of 1 or 2
SpanOptions ==
  [ACKTimeout |-> 1, FactorNum |-> 2, FactorDen |-> 1, MaxRetransmit |-> 2,
   MaxTransmitWait |-> 2, MaxTransmitSpan |-> 1, MaxMessageLength |-> 16]
ConnOptionsSet == {ZeroOptions, TimelineOptions, RetryOptions, SpanOptions}

\* ------------------------------------------------------------------------
\* Header codec (header.go), on sequences of bytes
\* ------------------------------------------------------------------------
\* Header.AppendBinary for an empty token
HeaderBytes(tpe, code, id) ==
  << (ProtocolVersion * 64) + (tpe * 16), code, id \div 256, id % 256 >>

\* Header.Decode returning the whole input when the token is truncated
HeaderDecodeWhole(data) ==
  IF Len(data) < HeaderLength
  THEN [err |-> "Truncated", rest |-> data, hdr |-> <<>>]
  ELSE LET b       == data[1]
           version == b \div 64
           tpe     == (b % 64) \div 16
           tkl     == b % 16
           rest    == SubSeq(data, HeaderLength + 1, Len(data))
       IN IF version # ProtocolVersion
          THEN [err |-> "UnsupportedVersion", rest |-> data, hdr |-> <<>>]
          ELSE IF tkl > TokenMaxLength
          THEN [err |-> "UnsupportedTokenLength", rest |-> rest, hdr |-> <<>>]
          ELSE IF Len(rest) < tkl
          THEN [err |-> "Truncated", rest |-> data, hdr |-> <<>>]
          ELSE [err |-> "nil",
                rest |-> SubSeq(rest, tkl + 1, Len(rest)),
                hdr |-> [Version |-> version, Type |-> tpe, Code |-> data[2],
                         ID |-> data[3] * 256 + data[4],
                         Token |-> SubSeq(rest, 1, tkl)]]
\* Header.Decode: [err, rest, hdr]
HeaderDecode(data) ==
  IF Len(data) < HeaderLength
  THEN [err |-> "Truncated", rest |-> data, hdr |-> <<>>]
  ELSE LET b       == data[1]
           version == b \div 64
           tpe     == (b % 64) \div 16
           tkl     == b % 16
           rest    == SubSeq(data, HeaderLength + 1, Len(data))
       IN IF version # ProtocolVersion
          THEN [err |-> "UnsupportedVersion", rest |-> data, hdr |-> <<>>]
          ELSE IF tkl > TokenMaxLength
          THEN [err |-> "UnsupportedTokenLength", rest |-> rest, hdr |-> <<>>]
          ELSE IF Len(rest) < tkl
          THEN [err |-> "Truncated", rest |-> rest, hdr |-> <<>>]
          ELSE [err |-> "nil",
                rest |-> SubSeq(rest, tkl + 1, Len(rest)),
                hdr |-> [Version |-> version, Type |-> tpe, Code |-> data[2],
                         ID |-> data[3] * 256 + data[4],
                         Token |-> SubSeq(rest, 1, tkl)]]

\* Header.AppendBinary(data): [data, err]
HeaderAppendBinary(h, data) ==
  IF h.Version # ProtocolVersion THEN [data |-> data, err |-> "UnsupportedVersion"]
  ELSE IF Len(h.Token) > TokenMaxLength
  THEN [data |-> data, err |-> "UnsupportedTokenLength"]
  ELSE [data |-> data \o << U8(h.Version * 64) + U8(h.Type * 16) + Len(h.Token),
                            U8(h.Code), U16(h.ID) \div 256, U16(h.ID) % 256 >>
                      \o h.Token,
        err |-> "nil"]

\* ------------------------------------------------------------------------
\* Integer and extend codec (option.go), on sequences of bytes.  A uint32
\* is an integer below 2^31 here; uint16 results are taken modulo 2^16.
\* Where a function uses the result of a call more than once, the result is
\* bound with r \in {call}, so that the call is evaluated once.
\* ------------------------------------------------------------------------
ExtendByte == 13
ExtendDword == 14
ExtendInvalid == 15
ExtendByteOffset == 13
ExtendDwordOffset == 269

\* Len32 without the case of 3 bytes
Len32Two(v) ==
  IF v = 0 THEN 0
  ELSE IF v <= 255 THEN 1
  ELSE IF v <= 16777215 THEN 2
  ELSE 4
\* Len32: minimum number of big-endian bytes of v
Len32(v) ==
  IF v = 0 THEN 0
  ELSE IF v <= 255 THEN 1
  ELSE IF v <= 65535 THEN 2
  ELSE IF v <= 16777215 THEN 3
  ELSE 4

\* Encode32(v, data): the switch has no case for v = 0
Encode32(v, data) ==
  IF v <= 255 THEN data \o << U8(v) >>
  ELSE IF v <= 65535 THEN data \o << U8(v \div 256), U8(v) >>
  ELSE IF v <= 16777215
  THEN data \o << U8(v \div 65536), U8(v \div 256), U8(v) >>
  ELSE data \o << U8(v \div 16777216), U8(v \div 65536), U8(v \div 256), U8(v) >>

\* Decode32(data): [panic, v]; panics unless len(data) is 1, 2, 3 or 4
Decode32(data) ==
  IF Len(data) = 1 THEN [panic |-> FALSE, v |-> data[1]]
  ELSE IF Len(data) = 2 THEN [panic |-> FALSE, v |-> data[1] * 256 + data[2]]
  ELSE IF Len(data) = 3
  THEN [panic |-> FALSE, v |-> data[1] * 65536 + data[2] * 256 + data[3]]
  ELSE IF Len(data) = 4
  THEN [panic |-> FALSE,
        v |-> data[1] * 16777216 + data[2] * 65536 + data[3] * 256 + data[4]]
  ELSE [panic |-> TRUE, v |-> 0]

\* EncodeExtend(data, v): [nibble, data]
EncodeExtend(data, v) ==
  IF v < ExtendByteOffset THEN [nibble |-> U8(v), data |-> data]
  ELSE IF v < ExtendDwordOffset
  THEN [nibble |-> ExtendByte, data |-> data \o << U8(v - ExtendByteOffset) >>]
  ELSE [nibble |-> ExtendDword,
        data |-> data \o << U8((v - ExtendDwordOffset) \div 256),
                            U8(v - ExtendDwordOffset) >>]

\* DecodeExtend(data, v): [val, rest, err]; the sums are uint16 additions
DecodeExtend(data, v) ==
  IF v = ExtendByte
  THEN IF Len(data) < 1 THEN [val |-> 0, rest |-> data, err |-> "Truncated"]
       ELSE [val |-> U16(data[1] + ExtendByteOffset),
             rest |-> SubSeq(data, 2, Len(data)), err |-> "nil"]
  ELSE IF v = ExtendDword
  THEN IF Len(data) < 2 THEN [val |-> 0, rest |-> data, err |-> "Truncated"]
       ELSE [val |-> U16(data[1] * 256 + data[2] + ExtendDwordOffset),
             rest |-> SubSeq(data, 3, Len(data)), err |-> "nil"]
  ELSE IF v = ExtendInvalid
  THEN [val |-> 0, rest |-> data, err |-> "UnsupportedExtend"]
  ELSE [val |-> v, rest |-> data, err |-> "nil"]

\* ------------------------------------------------------------------------
\* Option definitions and the schema (optiondef.go, schema.go)
\* ------------------------------------------------------------------------
ValueFormatEmpty == 0
ValueFormatUint == 1
ValueFormatOpaque == 2
ValueFormatString == 3

\* the OptionDef literal; strings are sequences of bytes, names are strings
OptionDef(name, code, format, repeatable, minLen, maxLen) ==
  [Name |-> name, Code |-> code, ValueFormat |-> format,
   Repeatable |-> repeatable, MinLen |-> minLen, MaxLen |-> maxLen]

IfMatch == OptionDef("IfMatch", 1, ValueFormatOpaque, TRUE, 0, 8)
URIHost == OptionDef("URIHost", 3, ValueFormatString, FALSE, 1, 255)
ETag == OptionDef("ETag", 4, ValueFormatOpaque, TRUE, 1, 8)
IfNoneMatch == OptionDef("IfNoneMatch", 5, ValueFormatEmpty, FALSE, 0, 0)
Observe == OptionDef("Observe", 6, ValueFormatUint, FALSE, 0, 3)
URIPort == OptionDef("URIPort", 7, ValueFormatUint, FALSE, 0, 2)
LocationPath == OptionDef("LocationPath", 8, ValueFormatString, TRUE, 0, 255)
URIPath == OptionDef("URIPath", 11, ValueFormatString, TRUE, 0, 255)
ContentFormat == OptionDef("ContentFormat", 12, ValueFormatUint, FALSE, 0, 2)
MaxAge == OptionDef("MaxAge", 14, ValueFormatUint, FALSE, 0, 4)
URIQuery == OptionDef("URIQuery", 15, ValueFormatString, TRUE, 0, 255)
Accept == OptionDef("Accept", 17, ValueFormatUint, FALSE, 0, 2)
LocationQuery == OptionDef("LocationQuery", 20, ValueFormatString, TRUE, 0, 255)
Block1 == OptionDef("Block1", 27, ValueFormatUint, FALSE, 0, 3)
Block2 == OptionDef("Block2", 23, ValueFormatUint, FALSE, 0, 3)
ProxyURI == OptionDef("ProxyURI", 35, ValueFormatString, FALSE, 1, 1034)
ProxyScheme == OptionDef("ProxyScheme", 39, ValueFormatString, FALSE, 1, 255)
Size1 == OptionDef("Size1", 60, ValueFormatUint, FALSE, 0, 4)
Size2 == OptionDef("Size2", 28, ValueFormatUint, FALSE, 0, 4)
NoResponse == OptionDef("NoResponse", 258, ValueFormatUint, FALSE, 0, 1)

\* DefaultSchema.options
DefaultSchema ==
  {IfMatch, URIHost, URIPort, URIPath, URIQuery, ETag, IfNoneMatch, Observe,
   LocationPath, LocationQuery, ContentFormat, MaxAge, Accept, Block1, Block2,
   ProxyURI, ProxyScheme, Size1, Size2, NoResponse}

\* UnrecognizedOptionDef(code)
UnrecognizedOptionDef(code) ==
  OptionDef("", code, ValueFormatOpaque, FALSE, 0, 1034)

\* OptionDef.Recognized and OptionDef.Critical
Recognized(def) == def.Name # ""
\* the critical bit read as set for even codes
CriticalEven(def) == def.Code % 2 = 0
Critical(def) == def.Code % 2 = 1

\* Schema.Option(code)
SchemaOption(schema, code) ==
  IF \E d \in schema : d.Code = code
  THEN CHOOSE d \in schema : d.Code = code
  ELSE UnrecognizedOptionDef(code)

\* ------------------------------------------------------------------------
\* Option (option.go)
\* ------------------------------------------------------------------------
\* the zero OptionDef and the zero Option
ZeroOptionDef == OptionDef("", 0, ValueFormatEmpty, FALSE, 0, 0)
ZeroOption ==
  [OptionDef |-> ZeroOptionDef, uintValue |-> 0, opaqueValue |-> <<>>,
   stringValue |-> <<>>]

\* the literals Option{OptionDef: def, uintValue / opaqueValue / stringValue: v}
UintOption(def, v) == [ZeroOption EXCEPT !.OptionDef = def, !.uintValue = v]
OpaqueOption(def, v) == [ZeroOption EXCEPT !.OptionDef = def, !.opaqueValue = v]
StringOption(def, v) == [ZeroOption EXCEPT !.OptionDef = def, !.stringValue = v]

\* Option.GetLength
GetLength(o) ==
  IF o.OptionDef.ValueFormat = ValueFormatUint THEN Len32(o.uintValue)
  ELSE IF o.OptionDef.ValueFormat = ValueFormatOpaque THEN Len(o.opaqueValue)
  ELSE IF o.OptionDef.ValueFormat = ValueFormatString THEN Len(o.stringValue)
  ELSE 0

\* Option.Encode(data, prev): [data, err]; no branch returns an error
OptionEncode(o, data, prev) ==
  LET header == Len(data) + 1
      delta  == U16(o.OptionDef.Code - prev)
      length == GetLength(o)
      format == o.OptionDef.ValueFormat
      Value(d1) ==
        IF length = 0 THEN [data |-> d1, err |-> "nil"]
        ELSE IF format = ValueFormatOpaque
        THEN [data |-> d1 \o o.opaqueValue, err |-> "nil"]
        ELSE IF format = ValueFormatString
        THEN [data |-> d1 \o o.stringValue, err |-> "nil"]
        ELSE IF format = ValueFormatUint
        THEN [data |-> Encode32(o.uintValue, d1), err |-> "nil"]
        ELSE [data |-> d1, err |-> "nil"]
      Header(hd, hl) ==
        Value([hl.data EXCEPT ![header] = U8(hd.nibble * 16) + hl.nibble])
      Length(hd) ==
        CHOOSE res \in {Header(hd, hl) : hl \in {EncodeExtend(hd.data, length)}} :
          TRUE
  IN CHOOSE res \in {Length(hd) : hd \in {EncodeExtend(data \o << 0 >>, delta)}} :
       TRUE

\* Option.Decode(data, prev, schema) into the zero Option: [rest, err, opt]
OptionDecode(data, prev, schema) ==
  IF Len(data) = 0
  THEN [rest |-> data, err |-> "Truncated", opt |-> ZeroOption]
  ELSE
    LET header == data[1]
        Value(def, o, length, l) ==
          LET value == SubSeq(l.rest, 1, length)
              rest  == SubSeq(l.rest, length + 1, Len(l.rest))
          IN IF Len(l.rest) < length
             THEN [rest |-> l.rest, err |-> "Truncated", opt |-> o]
             ELSE IF length < def.MinLen \/ length > def.MaxLen
             THEN [rest |-> l.rest, err |-> "InvalidOptionValueLength", opt |-> o]
             ELSE IF length = 0 THEN [rest |-> l.rest, err |-> "nil", opt |-> o]
             ELSE IF def.ValueFormat = ValueFormatOpaque
             THEN [rest |-> rest, err |-> "nil",
                   opt |-> [o EXCEPT !.opaqueValue = value]]
             ELSE IF def.ValueFormat = ValueFormatString
             THEN [rest |-> rest, err |-> "nil",
                   opt |-> [o EXCEPT !.stringValue = value]]
             ELSE IF def.ValueFormat = ValueFormatUint
             THEN IF Decode32(value).panic
                  THEN [rest |-> l.rest, err |-> "panic", opt |-> o]
                  ELSE [rest |-> rest, err |-> "nil",
                        opt |-> [o EXCEPT !.uintValue = Decode32(value).v]]
             ELSE [rest |-> rest, err |-> "nil", opt |-> o]
        Lookup(d, l) ==
          IF l.err # "nil"
          THEN [rest |-> l.rest, err |-> l.err, opt |-> ZeroOption]
          ELSE CHOOSE res \in
                 {Value(def, [ZeroOption EXCEPT !.OptionDef = def], l.val, l) :
                    def \in {SchemaOption(schema, U16(prev + d.val))}} : TRUE
        Length(d) ==
          IF d.err # "nil"
          THEN [rest |-> d.rest, err |-> d.err, opt |-> ZeroOption]
          ELSE CHOOSE res \in
                 {Lookup(d, l) : l \in {DecodeExtend(d.rest, header % 16)}} : TRUE
    IN CHOOSE res \in
         {Length(d) :
            d \in {DecodeExtend(SubSeq(data, 2, Len(data)), header \div 16)}} : TRUE

\* ------------------------------------------------------------------------
\* slices.SortFunc as Options.AppendBinary calls it: the pattern-defeating
\* quicksort of the Go standard library on zero-based ranges [a, b), for
\* slices of at most maxInsertion + 1 elements
\* ------------------------------------------------------------------------
maxInsertion == 12

\* cmp.Compare(l.Code, r.Code) < 0
Less(l, r) == l.OptionDef.Code < r.OptionDef.Code
\* data[i], data[j] = data[j], data[i] with zero-based i and j
SwapAt(data, i, j) == [data EXCEPT ![i + 1] = data[j + 1], ![j + 1] = data[i + 1]]

RECURSIVE InsertionInner(_, _, _)
InsertionInner(data, j, a) ==
  IF j > a /\ Less(data[j + 1], data[j])
  THEN CHOOSE res \in
         {InsertionInner(d, j - 1, a) : d \in {SwapAt(data, j, j - 1)}} : TRUE
  ELSE data

RECURSIVE InsertionOuter(_, _, _, _)
InsertionOuter(data, i, a, b) ==
  IF i < b
  THEN CHOOSE res \in
         {InsertionOuter(d, i + 1, a, b) : d \in {InsertionInner(data, i, a)}} :
         TRUE
  ELSE data

\* insertionSortCmpFunc(data, a, b)
InsertionSort(data, a, b) == InsertionOuter(data, a + 1, a, b)

\* order2CmpFunc: [a, b, swaps]
Order2(data, a, b, swaps) ==
  IF Less(data[b + 1], data[a + 1])
  THEN [a |-> b, b |-> a, swaps |-> swaps + 1]
  ELSE [a |-> a, b |-> b, swaps |-> swaps]

\* choosePivotCmpFunc for 8 <= b - a < 50: [pivot, swaps]; the hint is
\* increasing when swaps = 0
ChoosePivot(data, a, b) ==
  LET l  == b - a
      i  == a + (l \div 4) * 1
      j  == a + (l \div 4) * 2
      k  == a + (l \div 4) * 3
      Third(s1, s2) ==
        CHOOSE res \in
          {[pivot |-> s3.b, swaps |-> s3.swaps] :
             s3 \in {Order2(data, s1.a, s2.a, s2.swaps)}} : TRUE
      Second(s1) ==
        CHOOSE res \in
          {Third(s1, s2) : s2 \in {Order2(data, s1.b, k, s1.swaps)}} : TRUE
  IN CHOOSE res \in {Second(s1) : s1 \in {Order2(data, i, j, 0)}} : TRUE

\* partialInsertionSortCmpFunc for b - a < 50: reports whether the range is
\* sorted and moves nothing
PartialInsertionSort(data, a, b) ==
  \A i \in (a + 1)..(b - 1) : ~Less(data[i + 1], data[i])

RECURSIVE ScanUp(_, _, _, _)
ScanUp(data, i, j, a) ==
  IF i <= j /\ Less(data[i + 1], data[a + 1]) THEN ScanUp(data, i + 1, j, a)
  ELSE i

RECURSIVE ScanDown(_, _, _, _)
ScanDown(data, i, j, a) ==
  IF i <= j /\ ~Less(data[j + 1], data[a + 1]) THEN ScanDown(data, i, j - 1, a)
  ELSE j

RECURSIVE PartitionLoop(_, _, _, _)
PartitionLoop(data, i, j, a) ==
  LET Down(i1) ==
        CHOOSE res \in
          {IF i1 > j1 THEN [data |-> data, j |-> j1]
           ELSE PartitionLoop(SwapAt(data, i1, j1), i1 + 1, j1 - 1, a) :
             j1 \in {ScanDown(data, i1, j, a)}} : TRUE
  IN CHOOSE res \in {Down(i1) : i1 \in {ScanUp(data, i, j, a)}} : TRUE

\* partitionCmpFunc(data, a, b, pivot): [data, mid, alreadyPartitioned]
Partition(data, a, b, pivot) ==
  LET Rest(d0, i1, j1) ==
        IF i1 > j1
        THEN [data |-> SwapAt(d0, j1, a), mid |-> j1, alreadyPartitioned |-> TRUE]
        ELSE CHOOSE res \in
               {[data |-> SwapAt(r.data, r.j, a), mid |-> r.j,
                 alreadyPartitioned |-> FALSE] :
                  r \in {PartitionLoop(SwapAt(d0, i1, j1), i1 + 1, j1 - 1, a)}} :
               TRUE
      Down(d0, i1) ==
        CHOOSE res \in
          {Rest(d0, i1, j1) : j1 \in {ScanDown(d0, i1, b - 1, a)}} : TRUE
      Up(d0) ==
        CHOOSE res \in {Down(d0, i1) : i1 \in {ScanUp(d0, a + 1, b - 1, a)}} : TRUE
  IN CHOOSE res \in {Up(d0) : d0 \in {SwapAt(data, a, pivot)}} : TRUE

\* pdqsortCmpFunc(data, a, b, limit) for b - a <= maxInsertion + 1: after the
\* first partition both parts are at most maxInsertion long and are
\* insertion sorted
Pdqsort(data, a, b) ==
  IF b - a <= maxInsertion THEN InsertionSort(data, a, b)
  ELSE LET Sorted(pt) ==
             InsertionSort(InsertionSort(pt.data, a, pt.mid), pt.mid + 1, b)
           Pivoted(p) ==
             IF p.swaps = 0 /\ PartialInsertionSort(data, a, b) THEN data
             ELSE CHOOSE res \in
                    {Sorted(pt) : pt \in {Partition(data, a, b, p.pivot)}} : TRUE
       IN CHOOSE res \in {Pivoted(p) : p \in {ChoosePivot(data, a, b)}} : TRUE

\* slices.SortFunc(options, by Code)
SortFunc(data) == Pdqsort(data, 0, Len(data))

\* ------------------------------------------------------------------------
\* Options (options.go): the collection is the sequence Options.data
\* ------------------------------------------------------------------------
\* Index(options, def): zero-based, -1 when absent
Index(options, def) ==
  IF \E i \in 1..Len(options) : options[i].OptionDef.Code = def.Code
  THEN (CHOOSE i \in 1..Len(options) :
          /\ options[i].OptionDef.Code = def.Code
          /\ \A j \in 1..(i - 1) : options[j].OptionDef.Code # def.Code) - 1
  ELSE 0 - 1

\* Options.GetAll(def)
GetAll(o, def) == SelectSeq(o, LAMBDA v : v.OptionDef.Code = def.Code)

\* Options.Contains(def)
Contains(o, def) == Index(o, def) # 0 - 1

\* Options.Get(def): the first matching option and true, or the zero Option
\* and false
Get(o, def) ==
  CHOOSE res \in
    {IF i = 0 - 1 THEN [option |-> ZeroOption, ok |-> FALSE]
                  ELSE [option |-> o[i + 1], ok |-> TRUE] :
       i \in {Index(o, def)}} : TRUE

\* the loop of slices.DeleteFunc: s[j] is moved down to s[i] unless its code
\* is the deleted one (i and j zero-based); the result is s[:i]
RECURSIVE DeleteFuncLoop(_, _, _, _)
DeleteFuncLoop(s, i, j, code) ==
  IF j >= Len(s) THEN SubSeq(s, 1, i)
  ELSE IF s[j + 1].OptionDef.Code # code
       THEN DeleteFuncLoop([s EXCEPT ![i + 1] = s[j + 1]], i + 1, j + 1, code)
       ELSE DeleteFuncLoop(s, i, j + 1, code)

\* Options.ClearOption(def): o.data = slices.DeleteFunc(o.data, code match)
ClearOption(o, def) ==
  CHOOSE res \in
    {IF i = 0 - 1 THEN o ELSE DeleteFuncLoop(o, i, i + 1, def.Code) :
       i \in {Index(o, def)}} : TRUE

\* Options.ClearOptions(): o.data = o.data[0:]
ClearOptions(o) == SubSeq(o, 1, Len(o))

RECURSIVE AppendBinaryLoop(_, _, _, _)
AppendBinaryLoop(options, k, data, prev) ==
  IF k > Len(options) THEN [data |-> data, err |-> "nil"]
  ELSE CHOOSE res \in
         {IF r.err # "nil" THEN r
          ELSE AppendBinaryLoop(options, k + 1, r.data, options[k].OptionDef.Code) :
            r \in {OptionEncode(options[k], data, prev)}} : TRUE

\* Options.AppendBinary(data): [data, err, self, emitted], self being o.data
\* after the call and emitted the options in the order they were encoded;
\* the sort runs on slices.Clone(o.data)
OptionsAppendBinary(o, data) ==
  IF Len(o) = 0 THEN [data |-> data, err |-> "nil", self |-> o, emitted |-> o]
  ELSE LET Encoded(options) ==
             CHOOSE res \in
               {[data |-> r.data, err |-> r.err, self |-> o, emitted |-> options] :
                  r \in {AppendBinaryLoop(options, 1, data, 0)}} : TRUE
       IN CHOOSE res \in {Encoded(options) : options \in {SortFunc(o)}} : TRUE

RECURSIVE OptionsDecodeLoop(_, _, _, _)
OptionsDecodeLoop(data, prev, options, schema) ==
  IF Len(data) > 0 /\ data[1] # PayloadMarker
  THEN LET Step(r) ==
             LET code   == r.opt.OptionDef.Code
                 option == IF ~r.opt.OptionDef.Repeatable /\ code = prev
                           THEN [r.opt EXCEPT
                                   !.OptionDef = UnrecognizedOptionDef(code)]
                           ELSE r.opt
             IN IF r.err # "nil"
                THEN [rest |-> r.rest, err |-> r.err, options |-> options]
                ELSE IF ~Recognized(option.OptionDef) /\ ~Critical(option.OptionDef)
                THEN OptionsDecodeLoop(r.rest, code, options, schema)
                ELSE OptionsDecodeLoop(r.rest, code, Append(options, option),
                                       schema)
       IN CHOOSE res \in {Step(r) : r \in {OptionDecode(data, prev, schema)}} :
            TRUE
  ELSE [rest |-> data, err |-> "nil", options |-> options]

\* an Options.Decode that stores the options decoded so far also on failure
OptionsDecodeStoring(o, data, schema) ==
  CHOOSE res \in
    {[rest |-> r.rest, err |-> r.err, self |-> r.options] :
       r \in {OptionsDecodeLoop(data, 0, <<>>, schema)}} : TRUE

\* Options.Decode(data, schema): [rest, err, self]; o.data is assigned only
\* on success
OptionsDecode(o, data, schema) ==
  CHOOSE res \in
    {[rest |-> r.rest, err |-> r.err,
      self |-> IF r.err = "nil" THEN r.options ELSE o] :
       r \in {OptionsDecodeLoop(data, 0, <<>>, schema)}} : TRUE

\* the loop of Options.setAll over the supplied options, from its k-th
RECURSIVE SetAllLoop(_, _, _, _, _)
SetAllLoop(data, i, def, options, k) ==
  IF k > Len(options) \/ i = Len(data) THEN [data |-> data, err |-> "nil"]
  ELSE LET length == GetLength(options[k])
           Write(loc) ==
             IF loc = 0 - 1 THEN [data |-> data, err |-> "nil"]
             ELSE IF length < def.MinLen \/ length > def.MaxLen
             THEN [data |-> data, err |-> "InvalidOptionValueLength"]
             ELSE SetAllLoop([data EXCEPT ![i + loc + 1] = options[k]],
                             i + loc, def, options, k + 1)
       IN CHOOSE res \in
            {Write(loc) : loc \in {Index(SubSeq(data, i + 1, Len(data)), def)}} :
            TRUE

\* Options.setAll(def, options): [self, err]
setAll(o, def, options) ==
  IF ~def.Repeatable THEN [self |-> o, err |-> "OptionNotRepeatable"]
  ELSE CHOOSE res \in
         {IF r.err # "nil" THEN [self |-> r.data, err |-> r.err]
          ELSE [self |-> r.data \o options, err |-> "nil"] :
            r \in {SetAllLoop(o, 0, def, options, 1)}} : TRUE


\* Options.SetAllUint / SetAllOpaque / SetAllString: [self, err]
SetAllUint(o, def, values) ==
  IF def.ValueFormat # ValueFormatUint
  THEN [self |-> o, err |-> "InvalidOptionValueFormat"]
  ELSE setAll(o, def, [k \in 1..Len(values) |-> UintOption(def, values[k])])
SetAllOpaque(o, def, values) ==
  IF def.ValueFormat # ValueFormatOpaque
  THEN [self |-> o, err |-> "InvalidOptionValueFormat"]
  ELSE setAll(o, def, [k \in 1..Len(values) |-> OpaqueOption(def, values[k])])
SetAllString(o, def, values) ==
  IF def.ValueFormat # ValueFormatString
  THEN [self |-> o, err |-> "InvalidOptionValueFormat"]
  ELSE setAll(o, def, [k \in 1..Len(values) |-> StringOption(def, values[k])])

\* Options.GetAllUint / GetAllOpaque / GetAllString: [values, err]
GetAllUint(o, def) ==
  IF def.ValueFormat # ValueFormatUint
  THEN [values |-> <<>>, err |-> "InvalidOptionValueFormat"]
  ELSE [values |-> [k \in 1..Len(GetAll(o, def)) |-> GetAll(o, def)[k].uintValue],
        err |-> "nil"]
GetAllOpaque(o, def) ==
  IF def.ValueFormat # ValueFormatOpaque
  THEN [values |-> <<>>, err |-> "InvalidOptionValueFormat"]
  ELSE [values |-> [k \in 1..Len(GetAll(o, def)) |-> GetAll(o, def)[k].opaqueValue],
        err |-> "nil"]
GetAllString(o, def) ==
  IF def.ValueFormat # ValueFormatString
  THEN [values |-> <<>>, err |-> "InvalidOptionValueFormat"]
  ELSE [values |-> [k \in 1..Len(GetAll(o, def)) |-> GetAll(o, def)[k].stringValue],
        err |-> "nil"]

\* ------------------------------------------------------------------------
\* Message (message.go)
\* ------------------------------------------------------------------------
MaxMessageLength == 65535
MaxPayloadLength == 65535 - HeaderLength - 1

\* the zero Message a caller passes to Read
ZeroMessage ==
  [Version |-> 0, Type |-> 0, Code |-> 0, ID |-> 0, Token |-> <<>>,
   Options |-> <<>>, Payload |-> <<>>]

\* Message.AppendBinary(data): [data, err]
MessageAppendBinary(m, data) ==
  LET Body(h) ==
        IF h.err # "nil" THEN [data |-> h.data, err |-> h.err]
        ELSE CHOOSE res \in
               {IF Len(m.Payload) # 0
                THEN [data |-> o.data \o << PayloadMarker >> \o m.Payload,
                      err |-> "nil"]
                ELSE [data |-> o.data, err |-> "nil"] :
                  o \in {OptionsAppendBinary(m.Options, h.data)}} : TRUE
  IN CHOOSE res \in {Body(h) : h \in {HeaderAppendBinary(m, data)}} : TRUE

\* Message.Decode into msg with the default schema and payload limit:
\* [err, msg, offset, rest], offset being that of the UnmarshalError.  The
\* header is assigned before the options are decoded; Payload is assigned
\* only when a payload marker is present.
MessageDecode(msg, data, maxLen) ==
  LET limit  == IF maxLen = 0 THEN MaxMessageLength ELSE maxLen
      length == Len(data)
      Payload(mo, o) ==
        LET body == SubSeq(o.rest, 2, Len(o.rest))
        IN IF o.err # "nil"
           THEN [err |-> o.err, msg |-> mo, offset |-> length - Len(o.rest),
                 rest |-> o.rest]
           ELSE IF Len(o.rest) = 0
           THEN [err |-> "nil", msg |-> mo, offset |-> 0, rest |-> o.rest]
           ELSE IF Len(body) > MaxPayloadLength
           THEN [err |-> "PayloadTooLong", msg |-> mo, offset |-> 0, rest |-> body]
           ELSE [err |-> "nil", msg |-> [mo EXCEPT !.Payload = body],
                 offset |-> 0, rest |-> <<>>]
      Options(h) ==
        IF h.err # "nil"
        THEN [err |-> h.err, msg |-> msg, offset |-> length - Len(h.rest),
              rest |-> h.rest]
        ELSE CHOOSE res \in
               {Payload([msg EXCEPT !.Version = h.hdr.Version,
                                    !.Type = h.hdr.Type, !.Code = h.hdr.Code,
                                    !.ID = h.hdr.ID, !.Token = h.hdr.Token,
                                    !.Options = o.self], o) :
                  o \in {OptionsDecode(msg.Options, h.rest, DefaultSchema)}} : TRUE
  IN IF length > limit
     THEN [err |-> "MessageTooLong", msg |-> msg, offset |-> 0, rest |-> data]
     ELSE CHOOSE res \in {Options(h) : h \in {HeaderDecode(data)}} : TRUE

\* ------------------------------------------------------------------------
\* Request (request.go); a string is the sequence of its bytes
\* ------------------------------------------------------------------------
\* Option.SetUint / Option.SetString on Option{OptionDef: def}: [option, err]
OptionSetUint(def, value) ==
  IF def.ValueFormat # ValueFormatUint
  THEN [option |-> [ZeroOption EXCEPT !.OptionDef = def],
        err |-> "InvalidOptionValueFormat"]
  ELSE IF Len32(value) < def.MinLen \/ Len32(value) > def.MaxLen
  THEN [option |-> [ZeroOption EXCEPT !.OptionDef = def],
        err |-> "InvalidOptionValueLength"]
  ELSE [option |-> UintOption(def, value), err |-> "nil"]

OptionSetString(def, value) ==
  IF def.ValueFormat # ValueFormatString
  THEN [option |-> [ZeroOption EXCEPT !.OptionDef = def],
        err |-> "InvalidOptionValueFormat"]
  ELSE IF U16(Len(value)) < def.MinLen \/ U16(Len(value)) > def.MaxLen
  THEN [option |-> [ZeroOption EXCEPT !.OptionDef = def],
        err |-> "InvalidOptionValueLength"]
  ELSE [option |-> StringOption(def, value), err |-> "nil"]

\* Options.Set(opt): the first option of that code is replaced, or opt is
\* appended
Set(o, opt) ==
  CHOOSE res \in
    {IF i = 0 - 1 THEN Append(o, opt) ELSE [o EXCEPT ![i + 1] = opt] :
       i \in {Index(o, opt.OptionDef)}} : TRUE

\* Options.SetUint / Options.SetString: [self, err]
OptionsSetUint(o, def, value) ==
  CHOOSE res \in
    {IF r.err # "nil" THEN [self |-> o, err |-> r.err]
     ELSE [self |-> Set(o, r.option), err |-> "nil"] :
       r \in {OptionSetUint(def, value)}} : TRUE

OptionsSetString(o, def, value) ==
  CHOOSE res \in
    {IF r.err # "nil" THEN [self |-> o, err |-> r.err]
     ELSE [self |-> Set(o, r.option), err |-> "nil"] :
       r \in {OptionSetString(def, value)}} : TRUE

\* Code.Class()
Class(code) == (U8(code) \div 32) % 8

Slash == 47

\* strings.TrimPrefix(path, "/")
TrimPrefix(path) ==
  IF Len(path) > 0 /\ path[1] = Slash THEN SubSeq(path, 2, Len(path)) ELSE path

\* strings.SplitSeq(s, "/"): the substrings between the separators, in order
RECURSIVE SplitSeq(_)
SplitSeq(s) ==
  IF \E i \in 1..Len(s) : s[i] = Slash
  THEN LET i == CHOOSE k \in 1..Len(s) :
                  s[k] = Slash /\ \A j \in 1..(k - 1) : s[j] # Slash
       IN << SubSeq(s, 1, i - 1) >> \o SplitSeq(SubSeq(s, i + 1, Len(s)))
  ELSE << s >>

\* an iter.Seq[string]: the nil function, or a function yielding values
NilSeq == [isNil |-> TRUE, values |-> <<>>]
SeqOf(values) == [isNil |-> FALSE, values |-> values]

\* EncodePath(path)
EncodePath(path) ==
  IF TrimPrefix(path) = <<>> THEN NilSeq ELSE SeqOf(SplitSeq(TrimPrefix(path)))

\* DecodePath(segments)
RECURSIVE DecodePathLoop(_, _, _)
DecodePathLoop(values, k, path) ==
  IF k > Len(values) THEN path
  ELSE DecodePathLoop(values, k + 1, path \o << Slash >> \o values[k])

DecodePath(segments) ==
  IF segments.isNil THEN << Slash >>
  ELSE DecodePathLoop(segments.values, 1, <<>>)

\* Must(o.SetAllString(def, values)) with values an iter.Seq[string]:
\* [self, panic].  setAll ranges over the closure of SetAllString, which
\* ranges over values; ranging over a nil function panics.
MustSetAllString(o, def, values) ==
  IF def.ValueFormat # ValueFormatString \/ ~def.Repeatable
  THEN [self |-> o, panic |-> TRUE]
  ELSE IF values.isNil THEN [self |-> o, panic |-> TRUE]
  ELSE CHOOSE res \in
         {[self |-> r.self, panic |-> r.err # "nil"] :
            r \in {SetAllString(o, def, values.values)}} : TRUE

\* the zero Request (the ContentFormat field is read by no method)
ZeroRequest ==
  [Type |-> 0, Method |-> 0, MessageID |-> 0, Token |-> <<>>,
   Options |-> <<>>, Host |-> <<>>, Port |-> 0, Path |-> <<>>,
   Query |-> <<>>, Payload |-> <<>>]

\* the steps of Request.AppendBinary that set the options of the message,
\* each on the result s = [self, panic] of the step before
SetHost(r, s) ==
  IF s.panic \/ r.Host = <<>> THEN s
  ELSE CHOOSE res \in
         {[self |-> x.self, panic |-> x.err # "nil"] :
            x \in {OptionsSetString(s.self, URIHost, r.Host)}} : TRUE

SetPort(r, s) ==
  IF s.panic \/ r.Port = 0 THEN s
  ELSE CHOOSE res \in
         {[self |-> x.self, panic |-> x.err # "nil"] :
            x \in {OptionsSetUint(s.self, URIPort, r.Port)}} : TRUE

SetPath(r, s) ==
  IF s.panic \/ r.Path = <<>> THEN s
  ELSE MustSetAllString(s.self, URIPath, EncodePath(r.Path))

SetQuery(r, s) ==
  IF s.panic \/ Len(r.Query) = 0 THEN s
  ELSE MustSetAllString(s.self, URIQuery, SeqOf(r.Query))

\* Request.AppendBinary(data): [data, err, panic]
RequestAppendBinary(r, data) ==
  IF r.Type # Confirmable /\ r.Type # NonConfirmable
  THEN [data |-> data, err |-> "InvalidType", panic |-> FALSE]
  ELSE IF r.Method = 0 \/ Class(r.Method) # 0
  THEN [data |-> data, err |-> "InvalidCode", panic |-> FALSE]
  ELSE LET Encode(s) ==
             IF s.panic THEN [data |-> data, err |-> "nil", panic |-> TRUE]
             ELSE CHOOSE res \in
                    {[data |-> m.data, err |-> m.err, panic |-> FALSE] :
                       m \in {MessageAppendBinary(
                                [Version |-> ProtocolVersion, Type |-> r.Type,
                                 Code |-> r.Method, ID |-> r.MessageID,
                                 Token |-> r.Token, Options |-> s.self,
                                 Payload |-> r.Payload], data)}} : TRUE
       IN CHOOSE res \in
            {Encode(s) :
               s \in {SetQuery(r, SetPath(r, SetPort(r, SetHost(r,
                        [self |-> r.Options, panic |-> FALSE]))))}} : TRUE

\* Request.Decode(data, DecodeOptions{}) into r: [rest, err, req]
RequestDecode(r, data) ==
  LET Fill(msg, rest) ==
        IF msg.Type # Confirmable /\ msg.Type # NonConfirmable
        THEN [rest |-> rest, err |-> "InvalidType", req |-> r]
        ELSE IF Class(msg.Code) # 0
        THEN [rest |-> rest, err |-> "InvalidCode", req |-> r]
        ELSE [rest |-> rest, err |-> "nil",
              req |->
                [Type |-> msg.Type, Method |-> msg.Code,
                 MessageID |-> msg.ID, Token |-> msg.Token,
                 Options |-> msg.Options,
                 Host |-> IF Contains(msg.Options, URIHost)
                          THEN Get(msg.Options, URIHost).option.stringValue
                          ELSE r.Host,
                 Port |-> IF Contains(msg.Options, URIPort)
                          THEN U16(Get(msg.Options, URIPort).option.uintValue)
                          ELSE r.Port,
                 Path |-> DecodePath(
                            SeqOf(GetAllString(msg.Options, URIPath).values)),
                 Query |-> GetAllString(msg.Options, URIQuery).values,
                 Payload |-> r.Payload]]
  IN CHOOSE res \in
       {IF m.err # "nil" THEN [rest |-> m.rest, err |-> m.err, req |-> r]
        ELSE Fill(m.msg, m.rest) :
          m \in {MessageDecode(ZeroMessage, data, 0)}} : TRUE

\* ------------------------------------------------------------------------
\* Reader (conn.go)
\* ------------------------------------------------------------------------
\* NewReader: buf = make([]byte, opts.MaxMessageLength)
NewReaderBuf(o) == [i \in 1..o.MaxMessageLength |-> 0]
\* r.buf = r.buf[:0]
Reslice0(buf) == SubSeq(buf, 1, 0)
\* net.PacketConn.ReadFrom(p): copies at most len(p) bytes of the datagram
ReadFrom(p, dgram) ==
  LET n == Min(Len(p), Len(dgram))
  IN [n |-> n, p |-> [i \in 1..Len(p) |-> IF i <= n THEN dgram[i] ELSE p[i]]]
\* Reader.Read: [err, msg, offered], offered = len of the slice given to ReadFrom
ReaderRead(buf, dgram, msg, o) ==
  LET b0 == Reslice0(buf)
      rd == ReadFrom(b0, dgram)
      \* the count returned by ReadFrom is discarded; r.buf keeps its length
      d  == MessageDecode(msg, rd.p, o.MaxMessageLength)
  IN [err |-> d.err, msg |-> d.msg, offered |-> Len(b0)]

\* ------------------------------------------------------------------------
\* Conn.Write helpers
\* ------------------------------------------------------------------------
\* time.Duration(float64(ACKTimeout) * ACKRandomFactor)
JitterBound(o) == (o.ACKTimeout * o.FactorNum) \div o.FactorDen
\* rand.N(n) panics for n <= 0, else returns a value of [0, n)
RandN(n) == IF n <= 0 THEN {} ELSE 0..(n - 1)
\* the WriteOp literal of Conn.Write
NewWriteOp(id, t, o, jitter) ==
  LET timeout == o.ACKTimeout + jitter
  IN [id |-> id, start |-> t, retransmit |-> 0, timeout |-> timeout,
      next |-> t + timeout]

\* ------------------------------------------------------------------------
\* RetransmitQueue (conn.go)
\* ------------------------------------------------------------------------
\* RetransmitQueue.Add
QueueAdd(data, op) == Append(data, op)

\* slices.IndexFunc(q.data, id match): 0 when absent
IndexOfID(data, id) ==
  IF \E i \in 1..Len(data) : data[i].id = id
  THEN CHOOSE i \in 1..Len(data) :
         /\ data[i].id = id
         /\ \A j \in 1..(i - 1) : data[j].id # id
  ELSE 0

\* RetransmitQueue.Remove
QueueRemove(data, id) ==
  LET i == IndexOfID(data, id)
  IN IF i = 0 THEN data
     ELSE SubSeq(data, 1, i - 1) \o SubSeq(data, i + 1, Len(data))

\* the switch with the retry test written as > instead of ==
RetransmitCaseLate(op, t, o) ==
  IF op.next > t THEN "noop"
  ELSE IF op.retransmit > o.MaxRetransmit THEN "RetryLimit"
  ELSE IF op.start + o.MaxTransmitWait < t THEN "WaitLimit"
  ELSE IF op.start + o.MaxTransmitSpan < t THEN "span"
  ELSE "due"

\* the switch of RetransmitQueue.Retransmit, first matching case
RetransmitCase(op, t, o) ==
  IF op.next > t THEN "noop"
  ELSE IF op.retransmit = o.MaxRetransmit THEN "RetryLimit"
  ELSE IF op.start + o.MaxTransmitWait < t THEN "WaitLimit"
  ELSE IF op.start + o.MaxTransmitSpan < t THEN "span"
  ELSE "due"

\* the default case: double the timeout, count, reschedule
Backoff(op, t) ==
  [op EXCEPT !.timeout = 2 * op.timeout,
             !.retransmit = op.retransmit + 1,
             !.next = t + 2 * op.timeout]

\* the loop of RetransmitQueue.Retransmit: j ranges over the slice, i is the
\* write index of the in-place compaction
RECURSIVE RetransmitLoop(_, _, _, _, _, _, _)
RetransmitLoop(data, j, i, t, o, due, dropped) ==
  IF j > Len(data)
  THEN [data |-> SubSeq(data, 1, i - 1), due |-> due, dropped |-> dropped]
  ELSE LET op == data[j]
           c  == RetransmitCase(op, t, o)
       IN IF c \in {"RetryLimit", "WaitLimit"}
          THEN RetransmitLoop(data, j + 1, i, t, o, due,
                              Append(dropped, [id |-> op.id, err |-> c]))
          ELSE IF c = "due"
          THEN LET op2 == Backoff(op, t)
               IN RetransmitLoop([data EXCEPT ![i] = op2], j + 1, i + 1, t, o,
                                 Append(due, op2), dropped)
          ELSE RetransmitLoop([data EXCEPT ![i] = op], j + 1, i + 1, t, o,
                              due, dropped)

\* a sweep that never applies the MAX_TRANSMIT_WAIT case
RetransmitUnlimited(data, t, o) ==
  RetransmitLoop(data, 1, 1, t, [o EXCEPT !.MaxTransmitWait = t], <<>>, <<>>)
\* RetransmitQueue.Retransmit(now, retransmits): [data, due, dropped]
Retransmit(data, t, o) == RetransmitLoop(data, 1, 1, t, o, <<>>, <<>>)
\* a Retransmit that appends to the slice passed for reuse as it is
RetransmitKeeping(data, t, o, retransmits) ==
  RetransmitLoop(data, 1, 1, t, o, retransmits, <<>>)
\* the same with the slice the caller passes for reuse: retransmits[:0]
RetransmitInto(data, t, o, retransmits) ==
  RetransmitLoop(data, 1, 1, t, o, SubSeq(retransmits, 1, 0), <<>>)

\* RetransmitQueue.Next
RECURSIVE NextLoop(_, _, _)
NextLoop(data, j, next) ==
  IF j > Len(data) THEN next
  ELSE NextLoop(data, j + 1, IF data[j].next < next THEN data[j].next ELSE next)
QueueNext(data, t, o) == NextLoop(data, 1, t + o.ACKTimeout) - t

\* RetransmitQueue.Close: the queue after q.data = q.data[:0]
QueueClose(data) == SubSeq(data, 1, 0)
\* a Close that clears the queue without reporting its entries
QueueCloseSilent(data) == SubSeq([i \in 1..Len(data) |-> data[i].id], 1, 0)
\* RetransmitQueue.Close: the ids handed to the error handler with net.ErrClosed
QueueCloseErrors(data) == [i \in 1..Len(data) |-> data[i].id]

\* ------------------------------------------------------------------------
\* MessageIDSequence (header.go): the atomic.Uint32 counter is kept as its
\* two 16-bit halves, so that id.Add(1) wraps at 2^32 and MessageID(v)
\* truncates to the low half.
\* ------------------------------------------------------------------------
\* id.Add(1) on a uint32
Uint32Add1(c) ==
  LET lo == (c.lo + 1) % 65536
      hi == IF c.lo = 65535 THEN (c.hi + 1) % 65536 ELSE c.hi
  IN [hi |-> hi, lo |-> lo]
\* the conversion MessageID(uint32)
MessageIDSaturate(c) == IF c.hi > 0 THEN 65535 ELSE c.lo
MessageIDOf(c) == c.lo

\* ------------------------------------------------------------------------
\* State
\* ------------------------------------------------------------------------
\* goroutines calling Conn.Write; writer w sends the message with ID w
Writers == {1, 2}
\* the message types a writer may send
TypesOf(w) == IF w = 1 THEN {Confirmable} ELSE {Confirmable, NonConfirmable}
\* goroutines calling Conn.Close
Closers == {1, 2}
\* goroutines calling a MessageIDSource
Callers == {1, 2}
\* start values handed to MessageIDSequence
SeqStarts == {0, 41, 65533, 65534, 65535}
ErrKinds == {"ErrClosed", "RetryLimit", "WaitLimit", "WriteError"}

VARIABLES
  opts,           \* c.opts: the RetransmitOptions given to NewConn
  now,            \* the wall clock, time.Now()
  closed,         \* c.closed
  doneCloses,     \* number of close(c.done) executed
  delegateClosed, \* the endpoint has been closed
  add,            \* channel c.add
  remove,         \* channel c.remove
  queue,          \* queue.data of the event loop
  timerAt,        \* instant at which the loop's timer t fires
  epc,            \* position of Conn.run: "run" or "exit"
  drains,         \* number of times the loop ran queue.Close()
  wire,           \* per message id: datagrams written to the endpoint
  retx,           \* per message id: retransmissions written by the loop
  errs,           \* per message id and error: calls of the ErrorHandler
  panicked,       \* a goroutine panicked: the process is gone
  wpc, wtype, wres, wop, wlate, wtouch,   \* Conn.Write callers
  rpc, rres, rmsg, rlate, rtouch, rcalls, \* the Conn.Read caller
  rbuf, roffered, rdgram, ackReturned,    \* Reader state and read history
  cpc, closeReturned,                     \* Conn.Close callers
  inbound,        \* datagrams the endpoint holds for ReadFrom
  seq, seqStart, spc, sgot, issued,       \* MessageIDSequence and its callers
  mopts,          \* Options.data of the option collection under operation
  mbefore,        \* that collection as it was before the last call on it
  mmsg,           \* the Message a codec caller encodes
  mgot,           \* the Message the last Message.Decode decoded into
  mcall           \* the last call of a direct caller of the codec or of the
                  \* queue: its operation, arguments and results

connVars == << opts, now, closed, doneCloses, delegateClosed, add, remove,
               queue, timerAt, epc, drains, wire, retx, errs, panicked,
               wpc, wtype, wres, wop, wlate, wtouch,
               rpc, rres, rmsg, rlate, rtouch, rcalls,
               rbuf, roffered, rdgram, ackReturned,
               cpc, closeReturned, inbound >>
seqVars == << seq, seqStart, spc, sgot, issued >>
codecVars == << mopts, mbefore, mmsg, mgot, mcall >>
vars == << connVars, seqVars, codecVars >>

NoOp == [id |-> 0, start |-> 0, retransmit |-> 0, timeout |-> 0, next |-> 0]

\* NewConn followed by the start of Conn.run up to its first select
ConnInit(o) ==
  /\ opts = o
  /\ now = 0
  /\ closed = FALSE
  /\ doneCloses = 0
  /\ delegateClosed = FALSE
  /\ add = <<>>
  /\ remove = <<>>
  /\ queue = <<>>
  /\ timerAt = opts.ACKTimeout
  /\ epc = "run"
  /\ drains = 0
  /\ wire = [w \in Writers |-> 0]
  /\ retx = [w \in Writers |-> 0]
  /\ errs = [w \in Writers |-> [k \in ErrKinds |-> 0]]
  /\ panicked = FALSE
  /\ wpc = [w \in Writers |-> "idle"]
  /\ wtype = [w \in Writers |-> Confirmable]
  /\ wres = [w \in Writers |-> "none"]
  /\ wop = [w \in Writers |-> NoOp]
  /\ wlate = [w \in Writers |-> FALSE]
  /\ wtouch = [w \in Writers |-> FALSE]
  /\ rpc = "idle"
  /\ rres = "none"
  /\ rmsg = ZeroMessage
  /\ rlate = FALSE
  /\ rtouch = FALSE
  /\ rcalls = 0
  /\ rbuf = NewReaderBuf(opts)
  /\ roffered = 0
  /\ rdgram = <<>>
  /\ ackReturned = {}
  /\ cpc = [c \in Closers |-> "idle"]
  /\ closeReturned = FALSE
  /\ inbound = {}

\* MessageIDSequence(start)
SeqInit(start) ==
  /\ seqStart = start
  /\ seq = [hi |-> 0, lo |-> seqStart]
  /\ spc = [c \in Callers |-> "idle"]
  /\ sgot = [c \in Callers |-> 0]
  /\ issued = <<>>

\* no codec call made yet
NoCall == [op |-> "none"]

\* a codec caller holding the collection o and the message m
CodecInit(o, m) ==
  /\ mopts = o
  /\ mbefore = o
  /\ mmsg = m
  /\ mgot = ZeroMessage
  /\ mcall = NoCall

doneClosed == doneCloses > 0

\* ------------------------------------------------------------------------
\* Conn.Close
\* ------------------------------------------------------------------------
\* c.closed.Swap(true): [old, val]
SwapForgetsStore(v, new) == [old |-> v, val |-> v]
AtomicSwap(v, new) == [old |-> v, val |-> new]

\* if !c.closed.Swap(true)
CloseSwap(c) ==
  /\ ~panicked
  /\ cpc[c] = "idle"
  /\ LET s == AtomicSwap(closed, TRUE)
     IN /\ closed' = s.val
        /\ cpc' = [cpc EXCEPT ![c] = IF s.old THEN "delegate" ELSE "signal"]
  /\ UNCHANGED << opts, now, doneCloses, delegateClosed, add, remove, queue,
                  timerAt, epc, drains, wire, retx, errs, panicked,
                  wpc, wtype, wres, wop, wlate, wtouch,
                  rpc, rres, rmsg, rlate, rtouch, rcalls,
                  rbuf, roffered, rdgram, ackReturned, closeReturned,
                  inbound, seqVars, codecVars >>

\* close(c.done); closing a closed channel panics
CloseSignal(c) ==
  /\ ~panicked
  /\ cpc[c] = "signal"
  /\ doneCloses' = doneCloses + 1
  /\ panicked' = doneClosed
  /\ cpc' = [cpc EXCEPT ![c] = "delegate"]
  /\ UNCHANGED << opts, now, closed, delegateClosed, add, remove, queue,
                  timerAt, epc, drains, wire, retx, errs,
                  wpc, wtype, wres, wop, wlate, wtouch,
                  rpc, rres, rmsg, rlate, rtouch, rcalls,
                  rbuf, roffered, rdgram, ackReturned, closeReturned,
                  inbound, seqVars, codecVars >>

\* return c.delegate.Close()
CloseDelegate(c) ==
  /\ ~panicked
  /\ cpc[c] = "delegate"
  /\ delegateClosed' = TRUE
  /\ closeReturned' = TRUE
  /\ cpc' = [cpc EXCEPT ![c] = "returned"]
  /\ UNCHANGED << opts, now, closed, doneCloses, add, remove, queue,
                  timerAt, epc, drains, wire, retx, errs, panicked,
                  wpc, wtype, wres, wop, wlate, wtouch,
                  rpc, rres, rmsg, rlate, rtouch, rcalls,
                  rbuf, roffered, rdgram, ackReturned,
                  inbound, seqVars, codecVars >>

\* ------------------------------------------------------------------------
\* Endpoint and peer
\* ------------------------------------------------------------------------
\* outcomes of net.PacketConn.WriteTo, TRUE for a nil error: a write fails
\* once the endpoint is closed
WriteTo == IF delegateClosed THEN {FALSE} ELSE {TRUE}

\* datagrams the peer may send: an ACK or RST for a Confirmable it received,
\* or a NonConfirmable GET of its own carrying a one-byte payload
PeerDatagrams ==
  { HeaderBytes(t, 0, w) :
      t \in {Acknowledgement, Reset},
      w \in {x \in Writers : wire[x] > 0 /\ wtype[x] = Confirmable} }
  \cup { HeaderBytes(NonConfirmable, 1, 3) \o << PayloadMarker, 42 >> }

\* the endpoint holds at most one undelivered datagram
PeerSend ==
  /\ ~panicked
  /\ ~delegateClosed
  /\ inbound = {}
  /\ \E d \in PeerDatagrams : inbound' = {d}
  /\ UNCHANGED << opts, now, closed, doneCloses, delegateClosed, add, remove,
                  queue, timerAt, epc, drains, wire, retx, errs, panicked,
                  wpc, wtype, wres, wop, wlate, wtouch,
                  rpc, rres, rmsg, rlate, rtouch, rcalls,
                  rbuf, roffered, rdgram, ackReturned,
                  cpc, closeReturned, seqVars, codecVars >>

\* time passes
Tick ==
  /\ ~panicked
  /\ now < MaxTime
  /\ now' = now + 1
  /\ UNCHANGED << opts, closed, doneCloses, delegateClosed, add, remove,
                  queue, timerAt, epc, drains, wire, retx, errs, panicked,
                  wpc, wtype, wres, wop, wlate, wtouch,
                  rpc, rres, rmsg, rlate, rtouch, rcalls,
                  rbuf, roffered, rdgram, ackReturned,
                  cpc, closeReturned, inbound, seqVars, codecVars >>

\* ------------------------------------------------------------------------
\* Conn.Write
\* ------------------------------------------------------------------------
\* c.closed.Load()
LoadIgnored(v) == FALSE
ClosedLoad(v) == v

\* entry of Conn.Write(msg, addr) with msg.Type = tpe: the closed check
WriteLoad(w, tpe) ==
  /\ ~panicked
  /\ wpc[w] = "idle"
  /\ wtype' = [wtype EXCEPT ![w] = tpe]
  /\ wlate' = [wlate EXCEPT ![w] = closeReturned]
  /\ IF ClosedLoad(closed)
     THEN /\ wpc' = [wpc EXCEPT ![w] = "done"]
          /\ wres' = [wres EXCEPT ![w] = "ErrClosed"]
     ELSE /\ wpc' = [wpc EXCEPT ![w] = "tx"]
          /\ wres' = wres
  /\ UNCHANGED << opts, now, closed, doneCloses, delegateClosed, add, remove,
                  queue, timerAt, epc, drains, wire, retx, errs, panicked,
                  wop, wtouch,
                  rpc, rres, rmsg, rlate, rtouch, rcalls,
                  rbuf, roffered, rdgram, ackReturned,
                  cpc, closeReturned, inbound, seqVars, codecVars >>

\* c.tx.Write, then for a Confirmable the construction of the WriteOp
WriteTx(w) ==
  /\ ~panicked
  /\ wpc[w] = "tx"
  /\ wtouch' = [wtouch EXCEPT ![w] = TRUE]
  /\ \E ok \in WriteTo :
       IF ~ok
       THEN /\ wpc' = [wpc EXCEPT ![w] = "done"]
            /\ wres' = [wres EXCEPT ![w] = "WriteError"]
            /\ UNCHANGED << wire, wop, panicked >>
       ELSE /\ wire' = [wire EXCEPT ![w] = @ + 1]
            /\ IF wtype[w] # Confirmable
               THEN /\ wpc' = [wpc EXCEPT ![w] = "done"]
                    /\ wres' = [wres EXCEPT ![w] = "nil"]
                    /\ UNCHANGED << wop, panicked >>
               ELSE IF RandN(JitterBound(opts)) = {}
               THEN /\ wpc' = [wpc EXCEPT ![w] = "panic"]
                    /\ panicked' = TRUE
                    /\ UNCHANGED << wop, wres >>
               ELSE /\ \E jitter \in RandN(JitterBound(opts)) :
                         wop' = [wop EXCEPT ![w] = NewWriteOp(w, now, opts, jitter)]
                    /\ wpc' = [wpc EXCEPT ![w] = "select"]
                    /\ UNCHANGED << wres, panicked >>
  /\ UNCHANGED << opts, now, closed, doneCloses, delegateClosed, add, remove,
                  queue, timerAt, epc, drains, retx, errs,
                  wtype, wlate,
                  rpc, rres, rmsg, rlate, rtouch, rcalls,
                  rbuf, roffered, rdgram, ackReturned,
                  cpc, closeReturned, inbound, seqVars, codecVars >>

\* ------------------------------------------------------------------------
\* Conn.Read
\* ------------------------------------------------------------------------
\* the id of the ACK or RST a datagram carries, as a set
AckOf(dgram) ==
  LET h == HeaderDecode(dgram)
  IN IF h.err = "nil" /\ h.hdr.Type \in {Acknowledgement, Reset}
     THEN {h.hdr.ID} ELSE {}

\* entry of Conn.Read(msg): the closed check
ReadLoad ==
  /\ ~panicked
  /\ rpc \in {"idle", "done"}
  /\ rcalls < MaxReads
  /\ rcalls' = rcalls + 1
  /\ rlate' = closeReturned
  /\ rtouch' = FALSE
  /\ rdgram' = <<>>
  /\ IF ClosedLoad(closed)
     THEN /\ rpc' = "done"
          /\ rres' = "ErrClosed"
     ELSE /\ rpc' = "rx"
          /\ rres' = "none"
  /\ UNCHANGED << opts, now, closed, doneCloses, delegateClosed, add, remove,
                  queue, timerAt, epc, drains, wire, retx, errs, panicked,
                  wpc, wtype, wres, wop, wlate, wtouch,
                  rmsg, rbuf, roffered, ackReturned,
                  cpc, closeReturned, inbound, seqVars, codecVars >>

\* c.rx.Read(msg) and the type test that follows it
ReadRx ==
  /\ ~panicked
  /\ rpc = "rx"
  /\ rtouch' = TRUE
  /\ IF inbound = {}
     THEN \* ReadFrom on a closed endpoint fails
          /\ delegateClosed
          /\ rpc' = "done"
          /\ rres' = "ErrClosed"
          /\ UNCHANGED << rmsg, rbuf, roffered, rdgram, ackReturned, inbound >>
     ELSE \E d \in inbound :
            LET r == ReaderRead(rbuf, d, rmsg, opts)
            IN /\ inbound' = inbound \ {d}
               /\ rdgram' = d
               /\ roffered' = r.offered
               /\ rbuf' = rbuf
               /\ rmsg' = r.msg
               /\ IF r.err # "nil"
                  THEN /\ rpc' = "done"
                       /\ rres' = r.err
                       /\ ackReturned' = ackReturned \cup AckOf(d)
                  ELSE IF r.msg.Type \notin {Acknowledgement, Reset}
                  THEN /\ rpc' = "done"
                       /\ rres' = "nil"
                       /\ ackReturned' = ackReturned
                  ELSE /\ rpc' = "select"
                       /\ rres' = rres
                       /\ ackReturned' = ackReturned
  /\ UNCHANGED << opts, now, closed, doneCloses, delegateClosed, add, remove,
                  queue, timerAt, epc, drains, wire, retx, errs, panicked,
                  wpc, wtype, wres, wop, wlate, wtouch,
                  rlate, rcalls,
                  cpc, closeReturned, seqVars, codecVars >>

\* ------------------------------------------------------------------------
\* The select that ends Conn.Write (on c.add) and Conn.Read (on c.remove):
\*   select { case <-c.done: return net.ErrClosed; case ch <- v: return nil }
\* ------------------------------------------------------------------------
SelectSend(ch, v) ==
  (IF doneClosed THEN {[err |-> "ErrClosed", ch |-> ch]} ELSE {})
  \cup (IF Len(ch) < ChanCap THEN {[err |-> "nil", ch |-> Append(ch, v)]} ELSE {})

Selecting ==
  { <<"w", w>> : w \in {x \in Writers : wpc[x] = "select"} }
  \cup (IF rpc = "select" THEN { <<"r", 0>> } ELSE {})

ConnSelect ==
  /\ ~panicked
  /\ \E p \in Selecting :
       IF p[1] = "w"
       THEN \E out \in SelectSend(add, wop[p[2]]) :
              /\ add' = out.ch
              /\ wpc' = [wpc EXCEPT ![p[2]] = "done"]
              /\ wres' = [wres EXCEPT ![p[2]] = out.err]
              /\ UNCHANGED << remove, rpc, rres, ackReturned >>
       ELSE \E out \in SelectSend(remove, rmsg.ID) :
              /\ remove' = out.ch
              /\ rpc' = "done"
              /\ rres' = out.err
              /\ ackReturned' = ackReturned \cup AckOf(rdgram)
              /\ UNCHANGED << add, wpc, wres >>
  /\ UNCHANGED << opts, now, closed, doneCloses, delegateClosed,
                  queue, timerAt, epc, drains, wire, retx, errs, panicked,
                  wtype, wop, wlate, wtouch,
                  rmsg, rlate, rtouch, rcalls, rbuf, roffered, rdgram,
                  cpc, closeReturned, inbound, seqVars, codecVars >>

\* ------------------------------------------------------------------------
\* Conn.run: one iteration of the event loop
\* ------------------------------------------------------------------------
\* the cases of the select that can proceed
ReadyEvents ==
  (IF doneClosed THEN {"done"} ELSE {})
  \cup (IF add # <<>> THEN {"add"} ELSE {})
  \cup (IF remove # <<>> THEN {"remove"} ELSE {})
  \cup (IF now >= timerAt THEN {"timer"} ELSE {})

\* q.opts.ErrorHandler(op.Message, err)
ErrorHandler(e, id, err) == [e EXCEPT ![id][err] = @ + 1]

\* the ErrorHandler calls of a sweep, one per dropped entry
RECURSIVE ReportDropped(_, _, _)
ReportDropped(dropped, k, e) ==
  IF k > Len(dropped) THEN e
  ELSE ReportDropped(dropped, k + 1, ErrorHandler(e, dropped[k].id, dropped[k].err))

\* the ErrorHandler calls of RetransmitQueue.Close
RECURSIVE ReportClosed(_, _, _)
ReportClosed(ids, k, e) ==
  IF k > Len(ids) THEN e
  ELSE ReportClosed(ids, k + 1, ErrorHandler(e, ids[k], "ErrClosed"))

\* for _, op := range retransmits { c.tx.Write(op.Message, op.Addr) ... }
RECURSIVE SendDue(_, _, _, _, _, _)
SendDue(due, oks, k, w, r, e) ==
  IF k > Len(due) THEN [wire |-> w, retx |-> r, errs |-> e]
  ELSE IF oks[k]
  THEN SendDue(due, oks, k + 1, [w EXCEPT ![due[k].id] = @ + 1],
               [r EXCEPT ![due[k].id] = @ + 1], e)
  ELSE SendDue(due, oks, k + 1, w, r, ErrorHandler(e, due[k].id, "WriteError"))

run ==
  /\ ~panicked
  /\ epc = "run"
  /\ \E ev \in ReadyEvents :
       IF ev = "done"
       THEN /\ errs' = ReportClosed(QueueCloseErrors(queue), 1, errs)
            /\ queue' = QueueClose(queue)
            /\ epc' = "exit"
            /\ drains' = drains + 1
            /\ UNCHANGED << add, remove, timerAt, wire, retx >>
       ELSE IF ev = "add"
       THEN LET q == QueueAdd(queue, Head(add))
            IN /\ queue' = q
               /\ add' = Tail(add)
               /\ timerAt' = now + QueueNext(q, now, opts)
               /\ UNCHANGED << remove, epc, drains, wire, retx, errs >>
       ELSE IF ev = "remove"
       THEN LET q == QueueRemove(queue, Head(remove))
            IN /\ queue' = q
               /\ remove' = Tail(remove)
               /\ timerAt' = now + QueueNext(q, now, opts)
               /\ UNCHANGED << add, epc, drains, wire, retx, errs >>
       ELSE LET r == Retransmit(queue, now, opts)
            IN \E oks \in [1..Len(r.due) -> WriteTo] :
                 LET s == SendDue(r.due, oks, 1, wire, retx,
                                  ReportDropped(r.dropped, 1, errs))
                 IN /\ queue' = r.data
                    /\ wire' = s.wire
                    /\ retx' = s.retx
                    /\ errs' = s.errs
                    /\ timerAt' = now + QueueNext(r.data, now, opts)
                    /\ UNCHANGED << add, remove, epc, drains >>
  /\ UNCHANGED << opts, now, closed, doneCloses, delegateClosed, panicked,
                  wpc, wtype, wres, wop, wlate, wtouch,
                  rpc, rres, rmsg, rlate, rtouch, rcalls,
                  rbuf, roffered, rdgram, ackReturned,
                  cpc, closeReturned, inbound, seqVars, codecVars >>

\* ------------------------------------------------------------------------
\* Callers of the MessageIDSource returned by MessageIDSequence
\* ------------------------------------------------------------------------
\* return MessageID(id.Add(1)): the atomic add and the conversion
SeqCall(c) ==
  /\ spc[c] = "idle"
  /\ Len(issued) < MaxCalls
  /\ LET v == Uint32Add1(seq)
     IN /\ seq' = v
        /\ sgot' = [sgot EXCEPT ![c] = MessageIDOf(v)]
        /\ issued' = Append(issued, MessageIDOf(v))
  /\ spc' = [spc EXCEPT ![c] = "got"]
  /\ UNCHANGED << seqStart, connVars, codecVars >>

\* the caller takes the id and may call again
SeqReturn(c) ==
  /\ spc[c] = "got"
  /\ spc' = [spc EXCEPT ![c] = "idle"]
  /\ UNCHANGED << seq, seqStart, sgot, issued, connVars, codecVars >>

\* ------------------------------------------------------------------------
\* Specifications
\* ------------------------------------------------------------------------
\* a connection used by two writing goroutines and closed by two, over time
Init ==
  \E o \in ConnOptionsSet :
    ConnInit(o) /\ SeqInit(0) /\ CodecInit(<<>>, ZeroMessage)

Next ==
  \/ \E c \in Closers : CloseSwap(c)
  \/ \E c \in Closers : CloseSignal(c)
  \/ \E c \in Closers : CloseDelegate(c)
  \/ \E w \in Writers : \E tpe \in TypesOf(w) : WriteLoad(w, tpe)
  \/ \E w \in Writers : WriteTx(w)
  \/ ConnSelect
  \/ run
  \/ Tick

Spec == Init /\ [][Next]_vars

\* a connection with one writing and one reading goroutine and a peer that
\* answers, closed once, over time
RxInit ==
  \E o \in ConnOptionsSet :
    ConnInit(o) /\ SeqInit(0) /\ CodecInit(<<>>, ZeroMessage)

RxNext ==
  \/ \E c \in Closers : CloseSwap(c)
  \/ \E c \in Closers : CloseSignal(c)
  \/ \E c \in Closers : CloseDelegate(c)
  \/ WriteLoad(1, Confirmable)
  \/ WriteTx(1)
  \/ ReadLoad
  \/ ReadRx
  \/ PeerSend
  \/ ConnSelect
  \/ run
  \/ Tick

RxSpec == RxInit /\ [][RxNext]_vars

\* the message id source on its own, called by concurrent senders
SeqSpecInit ==
  \E s \in SeqStarts :
    SeqInit(s) /\ ConnInit(ZeroOptions) /\ CodecInit(<<>>, ZeroMessage)

SeqNext ==
  \/ \E c \in Callers : SeqCall(c)
  \/ \E c \in Callers : SeqReturn(c)

SeqSpec == SeqSpecInit /\ [][SeqNext]_vars

\* ------------------------------------------------------------------------
\* Callers of the integer and extend codec
\* ------------------------------------------------------------------------
\* byte values and uint32 values the callers pass
ByteSamples == {0, 1, 66, 255}
UintSamples == {0, 1, 255, 256, 16962, 65535, 65536, 16777215, 16777216, 2147483647}

\* the byte sequences of length at most n over ByteSamples
RECURSIVE ByteSeqs(_)
ByteSeqs(n) ==
  IF n = 0 THEN {<<>>}
  ELSE ByteSeqs(n - 1)
       \cup {Append(s, b) : s \in {t \in ByteSeqs(n - 1) : Len(t) = n - 1},
                            b \in ByteSamples}

\* Encode32(v, nil)
CallEncode32(v) ==
  /\ mcall.op = "none"
  /\ mcall' = [op |-> "Encode32", v |-> v, length |-> Len32(v),
               out |-> Encode32(v, <<>>)]
  /\ UNCHANGED << mopts, mbefore, mmsg, mgot, connVars, seqVars >>

\* Decode32(data) of bytes off the wire; a uint32 stays below 2^31 here
CallDecode32(data) ==
  /\ mcall.op = "none"
  /\ IF Len(data) < 4 THEN TRUE ELSE data[1] < 128
  /\ mcall' = [op |-> "Decode32", data |-> data, encoded |-> FALSE, v |-> 0,
               panic |-> Decode32(data).panic, val |-> Decode32(data).v]
  /\ UNCHANGED << mopts, mbefore, mmsg, mgot, connVars, seqVars >>

\* Decode32 of the bytes the last Encode32 call returned
CallDecode32Encoded ==
  /\ mcall.op = "Encode32"
  /\ mcall' = [op |-> "Decode32", data |-> mcall.out, encoded |-> TRUE,
               v |-> mcall.v,
               panic |-> Decode32(mcall.out).panic, val |-> Decode32(mcall.out).v]
  /\ UNCHANGED << mopts, mbefore, mmsg, mgot, connVars, seqVars >>

\* DecodeExtend(data, nibble)
CallDecodeExtend(nibble, data) ==
  /\ mcall.op = "none"
  /\ mcall' = [op |-> "DecodeExtend", nibble |-> nibble, data |-> data,
               val |-> DecodeExtend(data, nibble).val,
               rest |-> DecodeExtend(data, nibble).rest,
               err |-> DecodeExtend(data, nibble).err]
  /\ UNCHANGED << mopts, mbefore, mmsg, mgot, connVars, seqVars >>

\* the integer codec on its own: a caller makes one call, or decodes what
\* its Encode32 call returned
IntInit == ConnInit(ZeroOptions) /\ SeqInit(0) /\ CodecInit(<<>>, ZeroMessage)

IntNext ==
  \/ \E v \in UintSamples : CallEncode32(v)
  \/ \E data \in ByteSeqs(MaxWireLen) : CallDecode32(data)
  \/ CallDecode32Encoded
  \/ \E nibble \in 0..15 : \E data \in ByteSeqs(MaxWireLen) :
       CallDecodeExtend(nibble, data)

IntSpec == IntInit /\ [][IntNext]_vars

\* ------------------------------------------------------------------------
\* Callers of an option collection (options.go)
\* ------------------------------------------------------------------------
\* the repeatable uint definition of TestOptionsGetSetAll
UintSeqOption == OptionDef("UintOption", 0, ValueFormatUint, TRUE, 0, 4)
\* definitions and values the callers pass to the SetAll methods
SetAllDefs == {UintSeqOption, URIPath, ETag, URIPort}
UintValues == {1, 2}
OpaqueValues == {<<>>, <<66>>}
StringValues == {<<97>>, <<98>>}

\* the sequences of length at most n over S
RECURSIVE SeqsUpTo(_, _)
SeqsUpTo(S, n) ==
  IF n = 0 THEN {<<>>}
  ELSE SeqsUpTo(S, n - 1)
       \cup {Append(s, x) : s \in {t \in SeqsUpTo(S, n - 1) : Len(t) = n - 1},
                            x \in S}

\* a request built option by option: Content-Format first, then the
\* segments of a path of 12 segments
LongOptions ==
  << UintOption(ContentFormat, 50) >>
    \o [i \in 1..maxInsertion |-> StringOption(URIPath, << 96 + i >>)]
\* the collections a caller starts from
OptionsSamples == {<<>>, << UintOption(URIPort, 16962) >>, LongOptions}

\* options as a peer puts them on the wire: a code and the value bytes; the
\* codes are those of an unrecognized elective option (2), Uri-Host,
\* Observe, Uri-Port, an unrecognized critical option (9) and Uri-Path
WireItem(code, value) == OpaqueOption(UnrecognizedOptionDef(code), value)
WireItems ==
  {WireItem(2, <<1>>), WireItem(3, <<97>>), WireItem(6, <<1>>),
   WireItem(7, <<66, 66>>), WireItem(9, <<5>>), WireItem(11, <<98>>)}
\* wire options whose value has a length the schema rejects: a Uri-Port of
\* 3 bytes and an empty ETag
InvalidWireItems == {WireItem(7, <<1, 2, 3>>), WireItem(4, <<>>)}
\* the sequences of at most n wire options in non-decreasing code order
WireSeqs(n) ==
  {s \in SeqsUpTo(WireItems, n) :
     \A i \in 1..(Len(s) - 1) : s[i].OptionDef.Code <= s[i + 1].OptionDef.Code}
\* the bytes of a sequence of wire options
WireBytes(items) == AppendBinaryLoop(items, 1, <<>>, 0).data

\* SetAllUint / SetAllOpaque / SetAllString(def, values) on the collection
CallSetAllUint(def, values) ==
  /\ Len(mopts) + Len(values) <= MaxStored
  /\ mbefore' = mopts
  /\ \E r \in {SetAllUint(mopts, def, values)} :
       /\ mopts' = r.self
       /\ mcall' = [op |-> "SetAllUint", def |-> def, values |-> values,
                    err |-> r.err]
  /\ UNCHANGED << mmsg, mgot, connVars, seqVars >>

CallSetAllOpaque(def, values) ==
  /\ Len(mopts) + Len(values) <= MaxStored
  /\ mbefore' = mopts
  /\ \E r \in {SetAllOpaque(mopts, def, values)} :
       /\ mopts' = r.self
       /\ mcall' = [op |-> "SetAllOpaque", def |-> def, values |-> values,
                    err |-> r.err]
  /\ UNCHANGED << mmsg, mgot, connVars, seqVars >>

CallSetAllString(def, values) ==
  /\ Len(mopts) + Len(values) <= MaxStored
  /\ mbefore' = mopts
  /\ \E r \in {SetAllString(mopts, def, values)} :
       /\ mopts' = r.self
       /\ mcall' = [op |-> "SetAllString", def |-> def, values |-> values,
                    err |-> r.err]
  /\ UNCHANGED << mmsg, mgot, connVars, seqVars >>

\* Option.Encode(nil, 0) of the k-th option of the collection
CallOptionEncode(k) ==
  /\ mbefore' = mopts
  /\ \E r \in {OptionEncode(mopts[k], <<>>, 0)} :
       mcall' = [op |-> "OptionEncode", option |-> mopts[k],
                 out |-> r.data, err |-> r.err]
  /\ UNCHANGED << mopts, mmsg, mgot, connVars, seqVars >>

\* Options.AppendBinary(nil) on the collection
CallOptionsAppendBinary ==
  /\ mbefore' = mopts
  /\ \E r \in {OptionsAppendBinary(mopts, <<>>)} :
       /\ mopts' = r.self
       /\ mcall' = [op |-> "AppendBinary", out |-> r.data, err |-> r.err,
                    emitted |-> r.emitted]
  /\ UNCHANGED << mmsg, mgot, connVars, seqVars >>

\* Options.Decode(data, DefaultSchema) of the bytes a peer sent
CallOptionsDecode(items) ==
  /\ mcall.op = "none"
  /\ mbefore' = mopts
  /\ \E data \in {WireBytes(items)} :
       \E r \in {OptionsDecode(mopts, data, DefaultSchema)} :
         /\ mopts' = r.self
         /\ mcall' = [op |-> "OptionsDecode", items |-> items,
                      encoded |-> FALSE, data |-> data, rest |-> r.rest,
                      err |-> r.err]
  /\ UNCHANGED << mmsg, mgot, connVars, seqVars >>

\* Options.Decode(data, DefaultSchema) of the bytes of wire options the last
\* of which has an invalid length
CallOptionsDecodeInvalid(items, bad) ==
  /\ mcall.op = "none"
  /\ \A i \in 1..Len(items) : items[i].OptionDef.Code <= bad.OptionDef.Code
  /\ mbefore' = mopts
  /\ \E data \in {WireBytes(Append(items, bad))} :
       \E r \in {OptionsDecode(mopts, data, DefaultSchema)} :
         /\ mopts' = r.self
         /\ mcall' = [op |-> "OptionsDecodeInvalid",
                      items |-> Append(items, bad), data |-> data,
                      rest |-> r.rest, err |-> r.err]
  /\ UNCHANGED << mmsg, mgot, connVars, seqVars >>

\* Options.Decode(data, DefaultSchema) of the bytes the last AppendBinary
\* call returned
CallOptionsDecodeEncoded ==
  /\ mcall.op = "AppendBinary"
  /\ mbefore' = mopts
  /\ \E r \in {OptionsDecode(mopts, mcall.out, DefaultSchema)} :
       /\ mopts' = r.self
       /\ mcall' = [op |-> "OptionsDecode", items |-> mcall.emitted,
                    encoded |-> TRUE, data |-> mcall.out, rest |-> r.rest,
                    err |-> r.err]
  /\ UNCHANGED << mmsg, mgot, connVars, seqVars >>

\* Options.ClearOption(def) on the collection
CallClearOption(def) ==
  /\ mbefore' = mopts
  /\ mopts' = ClearOption(mopts, def)
  /\ mcall' = [op |-> "ClearOption", def |-> def]
  /\ UNCHANGED << mmsg, mgot, connVars, seqVars >>

\* Options.ClearOptions() on the collection
CallClearOptions ==
  /\ mbefore' = mopts
  /\ mopts' = ClearOptions(mopts)
  /\ mcall' = [op |-> "ClearOptions"]
  /\ UNCHANGED << mmsg, mgot, connVars, seqVars >>

\* an option collection and its callers
OptInit ==
  \E o \in OptionsSamples :
    ConnInit(ZeroOptions) /\ SeqInit(0) /\ CodecInit(o, ZeroMessage)

OptNext ==
  \/ \E def \in SetAllDefs : \E values \in SeqsUpTo(UintValues, MaxValues) :
       CallSetAllUint(def, values)
  \/ \E def \in SetAllDefs : \E values \in SeqsUpTo(OpaqueValues, MaxValues) :
       CallSetAllOpaque(def, values)
  \/ \E def \in SetAllDefs : \E values \in SeqsUpTo(StringValues, MaxValues) :
       CallSetAllString(def, values)
  \/ \E k \in 1..Len(mopts) : CallOptionEncode(k)
  \/ CallOptionsAppendBinary
  \/ \E items \in WireSeqs(MaxItems) : CallOptionsDecode(items)
  \/ CallOptionsDecodeEncoded
  \/ \E items \in WireSeqs(MaxItems) : \E bad \in InvalidWireItems :
       CallOptionsDecodeInvalid(items, bad)
  \/ \E def \in SetAllDefs \cup {ContentFormat} : CallClearOption(def)
  \/ CallClearOptions

OptSpec == OptInit /\ [][OptNext]_vars

\* ------------------------------------------------------------------------
\* Callers of the message codec (message.go)
\* ------------------------------------------------------------------------
\* headers of the messages the callers encode
MsgTypes == {Confirmable, Acknowledgement}
MsgTokens == {<<>>, <<208>>, <<208, 226, 77, 172, 1, 2, 3, 255>>}
MsgPayloads == {<<>>, <<72, 255>>}
\* a Uri-Path segment of 14 bytes, one more than a length nibble holds
LongSegment == [i \in 1..(ExtendByteOffset + 1) |-> 97]
\* option collections of the messages: none; Uri-Path set before Uri-Port;
\* Max-Age (delta in an extension byte, value of 3 bytes); Observe 0; a long
\* segment; the unrecognized critical code 301 (delta in two extension
\* bytes); 13 options; the unrecognized elective code 2 next to Uri-Path;
\* Uri-Port twice
MsgOptions ==
  {<<>>,
   << StringOption(URIPath, <<97>>), UintOption(URIPort, 16962) >>,
   << UintOption(MaxAge, 66051) >>,
   << UintOption(Observe, 0) >>,
   << StringOption(URIPath, LongSegment) >>,
   << OpaqueOption(UnrecognizedOptionDef(301), <<5>>) >>,
   LongOptions,
   << OpaqueOption(UnrecognizedOptionDef(2), <<1>>), StringOption(URIPath, <<97>>) >>,
   << UintOption(URIPort, 1), UintOption(URIPort, 2) >>}
MessageSamples ==
  {[Version |-> ProtocolVersion, Type |-> t, Code |-> 69, ID |-> 5117,
    Token |-> tok, Options |-> o, Payload |-> p] :
     t \in MsgTypes, tok \in MsgTokens, o \in MsgOptions, p \in MsgPayloads}

\* first bytes a peer may send in place of a version 1 header byte: version
\* 2, version 0, token lengths 9 and 12
BadFirstBytes == {132, 4, 73, 108}
\* option bytes a peer may send after the token, with the position in them
\* of the field that cannot be decoded and the cause: missing extension
\* bytes, the reserved nibble 15, a value shorter than announced, value
\* lengths outside the definition (ETag of 0 bytes, Uri-Port of 3 bytes)
BadOptions ==
  {[bytes |-> <<208>>, field |-> 1, cause |-> "Truncated"],
   [bytes |-> <<13>>, field |-> 1, cause |-> "Truncated"],
   [bytes |-> <<224, 1>>, field |-> 1, cause |-> "Truncated"],
   [bytes |-> <<211, 1, 66>>, field |-> 2, cause |-> "Truncated"],
   [bytes |-> <<240>>, field |-> 1, cause |-> "UnsupportedExtend"],
   [bytes |-> <<31>>, field |-> 1, cause |-> "UnsupportedExtend"],
   [bytes |-> <<223, 0>>, field |-> 2, cause |-> "UnsupportedExtend"],
   [bytes |-> <<64>>, field |-> 1, cause |-> "InvalidOptionValueLength"],
   [bytes |-> <<115, 1, 2, 3>>, field |-> 1, cause |-> "InvalidOptionValueLength"]}

\* Message.Decode(data) into a zero Message, called on an input of the given
\* kind
DecodeCall(kind, data, arg) ==
  \E r \in {MessageDecode(ZeroMessage, data, 0)} :
    /\ mgot' = r.msg
    /\ mcall' = [op |-> "MessageDecode", kind |-> kind, data |-> data,
                 arg |-> arg, err |-> r.err, offset |-> r.offset,
                 rest |-> r.rest]

\* Message.AppendBinary(nil) of the caller's message
CallMessageAppendBinary ==
  /\ mcall.op = "none"
  /\ \E r \in {MessageAppendBinary(mmsg, <<>>)} :
       mcall' = [op |-> "MessageAppendBinary", out |-> r.data, err |-> r.err]
  /\ UNCHANGED << mopts, mbefore, mmsg, mgot, connVars, seqVars >>

\* Message.Decode of the bytes AppendBinary returned
CallMessageDecode ==
  /\ mcall.op = "MessageAppendBinary"
  /\ mcall.err = "nil"
  /\ DecodeCall("whole", mcall.out, 0)
  /\ UNCHANGED << mopts, mbefore, mmsg, connVars, seqVars >>

\* Message.Decode of the first n bytes of what AppendBinary returned
CallMessageDecodeCut(n) ==
  /\ mcall.op = "MessageAppendBinary"
  /\ mcall.err = "nil"
  /\ DecodeCall("cut", SubSeq(mcall.out, 1, n), n)
  /\ UNCHANGED << mopts, mbefore, mmsg, connVars, seqVars >>

\* Message.Decode of what AppendBinary returned with another first byte
CallMessageDecodeFirst(b) ==
  /\ mcall.op = "MessageAppendBinary"
  /\ mcall.err = "nil"
  /\ DecodeCall("first", [mcall.out EXCEPT ![1] = b], b)
  /\ UNCHANGED << mopts, mbefore, mmsg, connVars, seqVars >>

\* Message.Decode of the header and token AppendBinary returned followed by
\* option bytes that cannot be decoded
CallMessageDecodeBad(bad) ==
  /\ mcall.op = "MessageAppendBinary"
  /\ mcall.err = "nil"
  /\ DecodeCall("bad",
       SubSeq(mcall.out, 1, HeaderLength + Len(mmsg.Token)) \o bad.bytes, bad)
  /\ UNCHANGED << mopts, mbefore, mmsg, connVars, seqVars >>

\* the messages of a peer's next datagram: acknowledgements without token
NextMessages == {m \in MessageSamples : m.Type = Acknowledgement /\ m.Token = <<>>}

\* Message.Decode of a peer's next datagram into the Message that holds the
\* message decoded before, as a caller reusing one Message across Conn.Read
\* calls does
CallMessageDecodeAgain(m) ==
  /\ mcall.op = "MessageDecode"
  /\ mcall.kind = "whole"
  /\ mcall.err = "nil"
  /\ \E e \in {MessageAppendBinary(m, <<>>)} :
       /\ e.err = "nil"
       /\ \E r \in {MessageDecode(mgot, e.data, 0)} :
            /\ mgot' = r.msg
            /\ mcall' = [op |-> "MessageDecodeAgain", data |-> e.data,
                         into |-> mgot, err |-> r.err, offset |-> r.offset,
                         rest |-> r.rest]
  /\ UNCHANGED << mopts, mbefore, mmsg, connVars, seqVars >>

\* the lengths of the proper prefixes of what AppendBinary returned
CutLengths ==
  IF mcall.op = "MessageAppendBinary" THEN 0..(Len(mcall.out) - 1) ELSE {}

\* a message and the callers of its codec
MsgInit ==
  \E m \in MessageSamples :
    ConnInit(ZeroOptions) /\ SeqInit(0) /\ CodecInit(<<>>, m)

MsgNext ==
  \/ CallMessageAppendBinary
  \/ CallMessageDecode
  \/ \E n \in CutLengths : CallMessageDecodeCut(n)
  \/ \E b \in BadFirstBytes : CallMessageDecodeFirst(b)
  \/ \E bad \in BadOptions : CallMessageDecodeBad(bad)
  \/ \E m \in NextMessages : CallMessageDecodeAgain(m)

MsgSpec == MsgInit /\ [][MsgNext]_vars

\* ------------------------------------------------------------------------
\* Callers of the request codec (request.go)
\* ------------------------------------------------------------------------
\* the requests a caller encodes: paths "", "/", "/a", "a/b", "/a/b", "//"
ReqTypes == {Confirmable, Acknowledgement}
ReqMethods == {0, 1, 69}
ReqPaths ==
  {<<>>, << Slash >>, << Slash, 97 >>, << 97, Slash, 98 >>,
   << Slash, 97, Slash, 98 >>, << Slash, Slash >>}
ReqHosts == {<<>>, << 104 >>}
ReqPorts == {0, 5683}
ReqQueries == {<<>>, << << 113 >> >>}
ReqOptions ==
  {<<>>, << UintOption(ContentFormat, 50) >>, << StringOption(URIPath, << 120 >>) >>}
RequestSamples ==
  {[Type |-> t, Method |-> m, MessageID |-> 5117, Token |-> << 1 >>,
    Options |-> o, Host |-> h, Port |-> pt, Path |-> p, Query |-> q,
    Payload |-> <<>>] :
     t \in ReqTypes, m \in ReqMethods, o \in ReqOptions, h \in ReqHosts,
     pt \in ReqPorts, p \in ReqPaths, q \in ReqQueries}

\* Request.AppendBinary(nil) of the request req
CallRequestAppendBinary(req) ==
  /\ \E r \in {RequestAppendBinary(req, <<>>)} :
       mcall' = [op |-> "RequestAppendBinary", req |-> req, out |-> r.data,
                 err |-> r.err, panic |-> r.panic]
  /\ UNCHANGED << mopts, mbefore, mmsg, mgot, connVars, seqVars >>

\* Request.Decode into a zero Request of the bytes AppendBinary returned
CallRequestDecode ==
  /\ mcall.op = "RequestAppendBinary"
  /\ ~mcall.panic
  /\ mcall.err = "nil"
  /\ \E r \in {RequestDecode(ZeroRequest, mcall.out)} :
       mcall' = [op |-> "RequestDecode", req |-> mcall.req,
                 data |-> mcall.out, got |-> r.req, rest |-> r.rest,
                 err |-> r.err]
  /\ UNCHANGED << mopts, mbefore, mmsg, mgot, connVars, seqVars >>

ReqInit == ConnInit(ZeroOptions) /\ SeqInit(0) /\ CodecInit(<<>>, ZeroMessage)

ReqNext ==
  \/ \E req \in RequestSamples : CallRequestAppendBinary(req)
  \/ CallRequestDecode

ReqSpec == ReqInit /\ [][ReqNext]_vars

\* ------------------------------------------------------------------------
\* Direct callers of a RetransmitQueue (conn.go)
\* ------------------------------------------------------------------------
QueueOptionsSet == {TimelineOptions, RetryOptions, SpanOptions}
QueueIDs == 1..MaxQueued
\* the jitter a caller adds to ACKTimeout when it builds a WriteOp
QueueJitters(o) == 0..JitterBound(o)
\* slices a caller passes to Retransmit for reuse: nil, or one holding an
\* entry of an earlier call
StaleOp == [id |-> 0, start |-> 0, retransmit |-> 1, timeout |-> 2, next |-> 2]
ReuseSlices == {<<>>, << StaleOp >>}
IDsOf(data) == {data[i].id : i \in 1..Len(data)}

\* q.Add(op) with the WriteOp of a message sent now
CallAdd(id, jitter) ==
  /\ Len(queue) < MaxQueued
  /\ id \notin IDsOf(queue)
  /\ queue' = QueueAdd(queue, NewWriteOp(id, now, opts, jitter))
  /\ mcall' = [op |-> "Add", id |-> id]
  /\ UNCHANGED << opts, now, closed, doneCloses, delegateClosed, add, remove,
                  timerAt, epc, drains, wire, retx, errs, panicked,
                  wpc, wtype, wres, wop, wlate, wtouch,
                  rpc, rres, rmsg, rlate, rtouch, rcalls,
                  rbuf, roffered, rdgram, ackReturned,
                  cpc, closeReturned, inbound,
                  seqVars, mopts, mbefore, mmsg, mgot >>

\* q.Remove(id)
CallRemove(id) ==
  /\ id \in IDsOf(queue)
  /\ queue' = QueueRemove(queue, id)
  /\ mcall' = [op |-> "Remove", id |-> id]
  /\ UNCHANGED << opts, now, closed, doneCloses, delegateClosed, add, remove,
                  timerAt, epc, drains, wire, retx, errs, panicked,
                  wpc, wtype, wres, wop, wlate, wtouch,
                  rpc, rres, rmsg, rlate, rtouch, rcalls,
                  rbuf, roffered, rdgram, ackReturned,
                  cpc, closeReturned, inbound,
                  seqVars, mopts, mbefore, mmsg, mgot >>

\* q.Retransmit(now, retransmits)
CallRetransmit(retransmits) ==
  /\ \E r \in {RetransmitInto(queue, now, opts, retransmits)} :
       /\ queue' = r.data
       /\ mcall' = [op |-> "Retransmit", now |-> now, before |-> queue,
                    reuse |-> retransmits, due |-> r.due,
                    dropped |-> r.dropped]
  /\ UNCHANGED << opts, now, closed, doneCloses, delegateClosed, add, remove,
                  timerAt, epc, drains, wire, retx, errs, panicked,
                  wpc, wtype, wres, wop, wlate, wtouch,
                  rpc, rres, rmsg, rlate, rtouch, rcalls,
                  rbuf, roffered, rdgram, ackReturned,
                  cpc, closeReturned, inbound,
                  seqVars, mopts, mbefore, mmsg, mgot >>

\* q.Next(now)
CallNext ==
  /\ mcall' = [op |-> "Next", now |-> now,
               period |-> QueueNext(queue, now, opts)]
  /\ UNCHANGED << connVars, seqVars, mopts, mbefore, mmsg, mgot >>

\* q.Close()
CallClose ==
  /\ queue' = QueueClose(queue)
  /\ mcall' = [op |-> "Close", errors |-> QueueCloseErrors(queue)]
  /\ UNCHANGED << opts, now, closed, doneCloses, delegateClosed, add, remove,
                  timerAt, epc, drains, wire, retx, errs, panicked,
                  wpc, wtype, wres, wop, wlate, wtouch,
                  rpc, rres, rmsg, rlate, rtouch, rcalls,
                  rbuf, roffered, rdgram, ackReturned,
                  cpc, closeReturned, inbound,
                  seqVars, mopts, mbefore, mmsg, mgot >>

\* time passes between two calls
QueueTick ==
  /\ now < MaxTime
  /\ now' = now + 1
  /\ UNCHANGED << opts, closed, doneCloses, delegateClosed, add, remove,
                  queue, timerAt, epc, drains, wire, retx, errs, panicked,
                  wpc, wtype, wres, wop, wlate, wtouch,
                  rpc, rres, rmsg, rlate, rtouch, rcalls,
                  rbuf, roffered, rdgram, ackReturned,
                  cpc, closeReturned, inbound,
                  seqVars, codecVars >>

QueueInit ==
  \E o \in QueueOptionsSet :
    ConnInit(o) /\ SeqInit(0) /\ CodecInit(<<>>, ZeroMessage)

QueueSpecNext ==
  \/ \E id \in QueueIDs : \E jitter \in QueueJitters(opts) : CallAdd(id, jitter)
  \/ \E id \in QueueIDs : CallRemove(id)
  \/ \E retransmits \in ReuseSlices : CallRetransmit(retransmits)
  \/ CallNext
  \/ CallClose
  \/ QueueTick

QueueSpec == QueueInit /\ [][QueueSpecNext]_vars

TypeOK ==
  /\ now \in 0..MaxTime
  /\ Len(add) <= ChanCap
  /\ Len(remove) <= ChanCap
  /\ epc \in {"run", "exit"}

\* ------------------------------------------------------------------------
\* Properties
\* ------------------------------------------------------------------------
\* the defaults of RFC 7252 section 4.8 declared in conn.go
DefaultACKTimeout == 2
DefaultMaxRetransmit == 4

\* the entries of message w the loop holds
EntriesOf(w) == { i \in 1..Len(queue) : queue[i].id = w }
\* writer w has put its Confirmable on the wire and left c.tx.Write
SentConfirmable(w) ==
  wtype[w] = Confirmable /\ wire[w] >= 1 /\ wpc[w] \in {"select", "done", "panic"}

C2_Timeline ==
  opts = TimelineOptions =>
    \A w \in Writers :
      SentConfirmable(w) =>
        /\ wpc[w] # "panic"
        /\ wop[w].timeout = 2 /\ wop[w].next = wop[w].start + 2
        /\ \A i \in EntriesOf(w) :
             /\ queue[i].retransmit <= 4
             /\ queue[i].timeout = 2 * (2 ^ queue[i].retransmit)
             /\ queue[i].next >= queue[i].start + (2 ^ (queue[i].retransmit + 2)) - 2
        /\ retx[w] <= 4
        /\ errs[w]["RetryLimit"] > 0 => retx[w] = 4

\* C3: no entry ever has more than MAX_RETRANSMIT retransmissions, and a
\* Confirmable is written to the endpoint at most 1 + MAX_RETRANSMIT times.
C3_RetransmitBound ==
  /\ \A i \in 1..Len(queue) : queue[i].retransmit <= opts.MaxRetransmit
  /\ \A w \in Writers :
       /\ retx[w] <= opts.MaxRetransmit
       /\ wire[w] <= 1 + opts.MaxRetransmit

\* an entry was retransmitted MAX_RETRANSMIT times, after the initial send,
\* and then dropped at the retry limit
C3_Witness ==
  \E w \in Writers :
    /\ opts.MaxRetransmit > 0
    /\ wire[w] = 1 + opts.MaxRetransmit
    /\ errs[w]["RetryLimit"] = 1

\* C4: a connection with zero-valued retransmit options behaves with the
\* defaults: its timer starts at ACK_TIMEOUT = 2, a Confirmable write does
\* not fail, gets a timeout of at least 2, and is neither dropped with
\* RetransmitRetryLimit before four retransmissions nor with
\* RetransmitWaitLimit at the first sweep.
C4_ZeroDefaults ==
  opts = ZeroOptions =>
    \A w \in Writers :
      SentConfirmable(w) =>
        /\ wpc[w] # "panic"
        /\ wop[w].timeout >= DefaultACKTimeout
        /\ errs[w]["RetryLimit"] > 0 => retx[w] = DefaultMaxRetransmit
        /\ errs[w]["WaitLimit"] > 0 => retx[w] > 0

\* C5: when the loop handles the close signal it calls the error handler
\* with ErrClosed exactly once for each queued entry and for nothing else,
\* empties the queue and exits; after that it retransmits nothing and
\* reports nothing.
C5_CloseDrain ==
  [][/\ (epc = "run" /\ epc' = "exit") =>
          /\ queue' = <<>>
          /\ retx' = retx
          /\ \A w \in Writers :
               /\ errs'[w]["ErrClosed"] =
                    errs[w]["ErrClosed"] + Cardinality(EntriesOf(w))
               /\ errs'[w]["ErrClosed"] <= 1
               /\ \A k \in ErrKinds \ {"ErrClosed"} : errs'[w][k] = errs[w][k]
     /\ epc = "exit" =>
          /\ epc' = "exit"
          /\ queue' = queue
          /\ retx' = retx
          /\ errs' = errs]_vars

\* the loop has exited on close after reporting two queued entries
C5_Witness ==
  /\ epc = "exit"
  /\ queue = <<>>
  /\ \A w \in Writers : errs[w]["ErrClosed"] = 1

\* C6: a Conn.Read or Conn.Write called after a Close has returned returns
\* ErrClosed at once: it does not touch the endpoint and never reaches the
\* select that enqueues an add or remove event.
C6_ClosedAfterClose ==
  /\ \A w \in Writers :
       wlate[w] => (wpc[w] = "done" /\ wres[w] = "ErrClosed" /\ ~wtouch[w])
  /\ rlate => (rpc = "done" /\ rres = "ErrClosed" /\ ~rtouch)

\* a Write and a Read were both called after Close had returned
C6_Witness ==
  /\ wlate[1] /\ wpc[1] = "done"
  /\ rlate /\ rpc = "done"

\* C7: however many goroutines call Close, c.done is closed exactly once
\* (no close of a closed channel), every Close returns, and the loop runs
\* its close drain at most once.
C7_CloseOnce ==
  /\ doneCloses <= 1
  /\ drains <= 1
  /\ (\E c \in Closers : cpc[c] \in {"delegate", "returned"}) => closed
  /\ (\A c \in Closers : cpc[c] = "returned") => doneCloses = 1
  /\ panicked => \E w \in Writers : wpc[w] = "panic"

\* two goroutines have called Close and returned, and the loop has drained
C7_Witness ==
  /\ \A c \in Closers : cpc[c] = "returned"
  /\ doneCloses = 1
  /\ drains = 1

\* C8: for a datagram that is a valid encoding of a message M and fits the
\* maximum message length, Read offers the endpoint a buffer that has room
\* for it, reports no decoding error, and leaves the caller's Message equal
\* to M (ErrClosed can only come from the final select of Conn.Read).
C8_ReadDecodes ==
  (rpc = "done" /\ rdgram # <<>>) =>
    LET m == MessageDecode(ZeroMessage, rdgram, opts.MaxMessageLength)
    IN m.err = "nil" =>
         /\ roffered >= Len(rdgram)
         /\ rres \in {"nil", "ErrClosed"}
         /\ rmsg = m.msg

\* C9: once Conn.Write has written a Confirmable, it goes on to enqueue an
\* entry with retransmit = 0, start = now, next = start + timeout and
\* ACK_TIMEOUT <= timeout <= ACK_TIMEOUT + ACK_TIMEOUT * ACK_RANDOM_FACTOR,
\* for every ACK_RANDOM_FACTOR >= 0; it does not fail.
C9_WriteEnqueues ==
  \A w \in Writers :
    SentConfirmable(w) =>
      /\ wpc[w] # "panic"
      /\ wop[w].id = w
      /\ wop[w].retransmit = 0
      /\ wop[w].next = wop[w].start + wop[w].timeout
      /\ wop[w].timeout >= opts.ACKTimeout
      /\ wop[w].timeout <= opts.ACKTimeout + JitterBound(opts)
      /\ (wpc[w] = "done" /\ wres[w] = "nil") =>
           \/ \E i \in 1..Len(add) : add[i] = wop[w]
           \/ EntriesOf(w) # {}
           \/ \E k \in ErrKinds : errs[w][k] > 0

RECURSIVE BigEndian(_)
BigEndian(data) ==
  IF Len(data) = 0 THEN 0
  ELSE BigEndian(SubSeq(data, 1, Len(data) - 1)) * 256 + data[Len(data)]

\* C15: DecodeExtend returns the nibble itself below 13, the following byte
\* plus 13 for nibble 13 and the following big-endian 16-bit value plus 269
\* for nibble 14, as exact integers (up to 65804); nibble 15 fails with
\* UnsupportedExtend and a missing trailing byte fails with Truncated.
C15_DecodeExtend ==
  mcall.op = "DecodeExtend" =>
    LET n == mcall.nibble
        d == mcall.data
    IN /\ n < ExtendByte => mcall.err = "nil" /\ mcall.val = n /\ mcall.rest = d
       /\ n = ExtendByte /\ Len(d) >= 1 =>
            /\ mcall.err = "nil"
            /\ mcall.val = d[1] + 13
            /\ mcall.rest = SubSeq(d, 2, Len(d))
       /\ n = ExtendDword /\ Len(d) >= 2 =>
            /\ mcall.err = "nil"
            /\ mcall.val = d[1] * 256 + d[2] + 269
            /\ mcall.rest = SubSeq(d, 3, Len(d))
       /\ n = ExtendInvalid => mcall.err = "UnsupportedExtend"
       /\ (n = ExtendByte /\ Len(d) < 1) \/ (n = ExtendDword /\ Len(d) < 2) =>
            mcall.err = "Truncated"

\* C16: Encode32 appends exactly Len32(v) bytes, none if and only if v = 0
\* and otherwise the minimal big-endian bytes of v, and Decode32 returns the
\* big-endian value of its 0 to 4 bytes, so that decoding the encoded bytes
\* returns v.
C16_Uint32Codec ==
  /\ mcall.op = "Encode32" =>
       /\ Len(mcall.out) = Len32(mcall.v)
       /\ Len(mcall.out) = 0 <=> mcall.v = 0
       /\ mcall.v # 0 => BigEndian(mcall.out) = mcall.v /\ mcall.out[1] # 0
  /\ mcall.op = "Decode32" /\ Len(mcall.data) <= 4 =>
       ~mcall.panic /\ mcall.val = BigEndian(mcall.data)
  /\ mcall.op = "Decode32" /\ mcall.encoded => ~mcall.panic /\ mcall.val = mcall.v

\* ------------------------------------------------------------------------
\* Option collection claims
\* ------------------------------------------------------------------------
\* the options Options.Decode was given, a non-repeatable schema option
\* occurring twice in a row
DecodedTwice ==
  /\ mcall.op = "OptionsDecode"
  /\ mcall.err = "nil"
  /\ Len(mcall.items) = 2
  /\ mcall.items[1].OptionDef.Code = mcall.items[2].OptionDef.Code
  /\ Recognized(SchemaOption(DefaultSchema, mcall.items[1].OptionDef.Code))
  /\ ~SchemaOption(DefaultSchema, mcall.items[1].OptionDef.Code).Repeatable

\* C12: when a non-repeatable option occurs twice in a row on the wire,
\* Options.Decode yields the first occurrence as the recognized option; the
\* second occurrence is dropped when the code is elective and, when the code
\* is critical, kept under the synthetic unrecognized opaque definition of
\* the same code with the value bytes of that occurrence as its value.
C12_RepeatedNonRepeatable ==
  DecodedTwice =>
    LET code == mcall.items[1].OptionDef.Code
        def == SchemaOption(DefaultSchema, code)
    IN /\ Len(mopts) >= 1
       /\ mopts[1].OptionDef = def
       /\ IF Critical(def)
          THEN /\ Len(mopts) = 2
               /\ mopts[2].OptionDef = UnrecognizedOptionDef(code)
               /\ mopts[2].opaqueValue = mcall.items[2].opaqueValue
          ELSE Len(mopts) = 1

\* the definition the i-th option of the input resolves to: that of the
\* schema, unless the option is a further occurrence of a non-repeatable one
ResolvedDef(items, i) ==
  LET code == items[i].OptionDef.Code
      def  == SchemaOption(DefaultSchema, code)
      prev == IF i = 1 THEN 0 ELSE items[i - 1].OptionDef.Code
  IN IF ~def.Repeatable /\ code = prev THEN UnrecognizedOptionDef(code) ELSE def

\* the definitions of the options of the input that are to be kept: the
\* recognized ones and the unrecognized ones with an odd code
RECURSIVE KeptDefs(_, _)
KeptDefs(items, i) ==
  IF i > Len(items) THEN <<>>
  ELSE LET def == ResolvedDef(items, i)
       IN IF def.Name = "" /\ def.Code % 2 = 0
          THEN KeptDefs(items, i + 1)
          ELSE << def >> \o KeptDefs(items, i + 1)

\* C13: Options.Decode keeps every recognized option and every unrecognized
\* critical option, drops every unrecognized elective option, and the codes
\* of the options after a dropped one are those the sender encoded.
C13_DropElective ==
  (mcall.op = "OptionsDecode" /\ ~mcall.encoded) =>
    /\ mcall.err = "nil"
    /\ mcall.rest = <<>>
    /\ [k \in 1..Len(mopts) |-> mopts[k].OptionDef] = KeptDefs(mcall.items, 1)

\* an unrecognized elective option was dropped in front of a kept option
C13_Witness ==
  /\ mcall.op = "OptionsDecode"
  /\ ~mcall.encoded
  /\ Len(mcall.items) = 2
  /\ mcall.items[1].OptionDef.Code = 2
  /\ Len(mopts) = 1
  /\ mopts[1].OptionDef = URIPath

\* the value length of an option is outside the bounds of its definition
LengthOutOfBounds(o) ==
  GetLength(o) < o.OptionDef.MinLen \/ GetLength(o) > o.OptionDef.MaxLen

\* C17: encoding a single option whose value length is outside [MinLen,
\* MaxLen] of its definition fails with InvalidOptionValueLength and appends
\* nothing, and decoding the bytes an encode of the collection returned never
\* fails with InvalidOptionValueLength.
C17_EncodeChecksLength ==
  /\ (mcall.op = "OptionEncode" /\ LengthOutOfBounds(mcall.option)) =>
       (mcall.err = "InvalidOptionValueLength" /\ mcall.out = <<>>)
  /\ (mcall.op = "OptionsDecode" /\ mcall.encoded) =>
       mcall.err # "InvalidOptionValueLength"

\* the options of a sequence that have the given code, in sequence order
WithCode(options, code) ==
  LET HasCode(x) == x.OptionDef.Code = code
  IN SelectSeq(options, HasCode)

\* C18: Options.AppendBinary leaves the collection as it was, and emits the
\* options in non-decreasing code order with the options of equal code in
\* their insertion order.
C18_StableSortedEncode ==
  mcall.op = "AppendBinary" =>
    /\ mopts = mbefore
    /\ \A i \in 1..(Len(mcall.emitted) - 1) :
         mcall.emitted[i].OptionDef.Code <= mcall.emitted[i + 1].OptionDef.Code
    /\ \A k \in 1..Len(mbefore) :
         WithCode(mcall.emitted, mbefore[k].OptionDef.Code)
           = WithCode(mbefore, mbefore[k].OptionDef.Code)

\* the options of a sequence that have another code than the given one
WithoutCode(options, code) ==
  LET OtherCode(x) == x.OptionDef.Code # code
  IN SelectSeq(options, OtherCode)

\* the values GetAllUint / GetAllOpaque / GetAllString(def) yields for the
\* SetAll method that was called
GetAllOf(op, o, def) ==
  IF op = "SetAllUint" THEN GetAllUint(o, def).values
  ELSE IF op = "SetAllOpaque" THEN GetAllOpaque(o, def).values
  ELSE GetAllString(o, def).values

\* C19: after a successful SetAllUint / SetAllOpaque / SetAllString(def,
\* values) the matching GetAll method yields exactly values, in order, and
\* the options with other codes are unchanged.
C19_SetAllThenGetAll ==
  (mcall.op \in {"SetAllUint", "SetAllOpaque", "SetAllString"}
     /\ mcall.err = "nil") =>
    /\ GetAllOf(mcall.op, mopts, mcall.def) = mcall.values
    /\ WithoutCode(mopts, mcall.def.Code) = WithoutCode(mbefore, mcall.def.Code)

\* the length of a value as the SetAll method called counts it
ValueLength(op, v) ==
  IF op = "SetAllUint" THEN Len32(v) ELSE Len(v)

\* C20: SetAllUint / SetAllOpaque / SetAllString return OptionNotRepeatable
\* for a definition of their format that is not repeatable, return
\* InvalidOptionValueLength when the definition is repeatable and a value's
\* length is outside [MinLen, MaxLen], and leave the collection as it was in
\* both error cases.
C20_SetAllErrors ==
  (mcall.op \in {"SetAllUint", "SetAllOpaque", "SetAllString"}
     /\ mcall.err # "InvalidOptionValueFormat") =>
    /\ ~mcall.def.Repeatable => mcall.err = "OptionNotRepeatable"
    /\ (mcall.def.Repeatable
          /\ \E k \in 1..Len(mcall.values) :
               \/ ValueLength(mcall.op, mcall.values[k]) < mcall.def.MinLen
               \/ ValueLength(mcall.op, mcall.values[k]) > mcall.def.MaxLen)
         => mcall.err = "InvalidOptionValueLength"
    /\ mcall.err \in {"OptionNotRepeatable", "InvalidOptionValueLength"}
         => mopts = mbefore

\* ------------------------------------------------------------------------
\* Message codec claims
\* ------------------------------------------------------------------------
\* number of occurrences of x in a sequence
Count(s, x) == Cardinality({k \in 1..Len(s) : s[k] = x})
\* two option collections hold the same options, the second in ascending
\* code order; the order among options of equal code is not compared
SameOptions(a, b) ==
  /\ Len(a) = Len(b)
  /\ \A k \in 1..Len(a) : Count(a, a[k]) = Count(b, a[k])
  /\ \A k \in 1..(Len(b) - 1) : b[k].OptionDef.Code <= b[k + 1].OptionDef.Code
\* the decoded message equals the encoded one in header, payload and options
SameMessage(m, got) ==
  /\ got.Version = m.Version
  /\ got.Type = m.Type
  /\ got.Code = m.Code
  /\ got.ID = m.ID
  /\ got.Token = m.Token
  /\ got.Payload = m.Payload
  /\ SameOptions(m.Options, got.Options)
\* version 1, a token of at most 8 bytes, every option value within the
\* length bounds of its definition
ValidMessage(m) ==
  /\ m.Version = ProtocolVersion
  /\ Len(m.Token) <= TokenMaxLength
  /\ \A k \in 1..Len(m.Options) : ~LengthOutOfBounds(m.Options[k])
\* every option carries the definition the default schema resolves its code
\* to, none is an unrecognized elective one, and no non-repeatable
\* definition occurs twice
SchemaOptions(o) ==
  \A k \in 1..Len(o) :
    /\ o[k].OptionDef = SchemaOption(DefaultSchema, o[k].OptionDef.Code)
    /\ Recognized(o[k].OptionDef) \/ o[k].OptionDef.Code % 2 = 1
    /\ (Recognized(o[k].OptionDef) /\ ~o[k].OptionDef.Repeatable) =>
         \A j \in 1..Len(o) : o[j].OptionDef.Code = o[k].OptionDef.Code => j = k

ExtLen(v) ==
  IF v < ExtendByteOffset THEN 0 ELSE IF v < ExtendDwordOffset THEN 1 ELSE 2

\* the fields of the options as sent from position pos on, each with the
\* number of bytes in front of it: per option the header byte, the delta
\* extension, the length extension and the value
RECURSIVE OptionFields(_, _, _, _)
OptionFields(emitted, k, prev, pos) ==
  IF k > Len(emitted) THEN <<>>
  ELSE LET code == emitted[k].OptionDef.Code
           d    == ExtLen(code - prev)
           l    == ExtLen(GetLength(emitted[k]))
           n    == GetLength(emitted[k])
       IN << [start |-> pos, len |-> 1, first |-> TRUE],
             [start |-> pos + 1, len |-> d, first |-> FALSE],
             [start |-> pos + 1 + d, len |-> l, first |-> FALSE],
             [start |-> pos + 1 + d + l, len |-> n, first |-> FALSE] >>
            \o OptionFields(emitted, k + 1, code, pos + 1 + d + l + n)

\* the fields of an encoded message up to the payload marker: the fixed
\* header, the token, the fields of the options
MessageFields(m) ==
  << [start |-> 0, len |-> HeaderLength, first |-> FALSE],
     [start |-> HeaderLength, len |-> Len(m.Token), first |-> FALSE] >>
    \o OptionFields(OptionsAppendBinary(m.Options, <<>>).emitted, 1, 0,
                    HeaderLength + Len(m.Token))

\* the fields that the first n bytes of the message do not hold in full
Incomplete(fields, n) ==
  {k \in 1..Len(fields) : fields[k].start + fields[k].len > n}
\* the first n bytes break off inside a field: the first field they do not
\* hold in full is not the header byte of an option
BreaksField(fields, n) ==
  /\ Incomplete(fields, n) # {}
  /\ \A k \in Incomplete(fields, n) :
       (\A j \in Incomplete(fields, n) : k <= j) => ~fields[k].first
\* the number of bytes in front of the field the first n bytes break off in
BrokenFieldStart(fields, n) ==
  LET k == CHOOSE i \in Incomplete(fields, n) :
             \A j \in Incomplete(fields, n) : i <= j
  IN fields[k].start

\* C14: when Message.Decode fails in the header or in the options, the
\* offset of the UnmarshalError is the number of input bytes in front of the
\* failing field, counted from the start of the message: 0 for an input
\* shorter than 4 bytes and for a version other than 1 (UnsupportedVersion),
\* 4 for an unsupported token length and a truncated token, the position of
\* the failing option field for option errors.
C14_ErrorOffset ==
  mcall.op = "MessageDecode" =>
    /\ mcall.kind = "cut" =>
         IF BreaksField(MessageFields(mmsg), mcall.arg)
         THEN /\ mcall.err = "Truncated"
              /\ mcall.offset = BrokenFieldStart(MessageFields(mmsg), mcall.arg)
         ELSE mcall.err = "nil"
    /\ mcall.kind = "first" =>
         IF mcall.arg \div 64 # ProtocolVersion
         THEN mcall.err = "UnsupportedVersion" /\ mcall.offset = 0
         ELSE mcall.err = "UnsupportedTokenLength" /\ mcall.offset = HeaderLength
    /\ mcall.kind = "bad" =>
         /\ mcall.err = mcall.arg.cause
         /\ mcall.offset = HeaderLength + Len(mmsg.Token) + mcall.arg.field

\* a message with a token of 8 bytes and Max-Age was cut after the first
\* byte of the value: Truncated at offset 14, the start of the value
C14_Witness ==
  /\ mcall.op = "MessageDecode"
  /\ mcall.kind = "cut"
  /\ mmsg.Options = << UintOption(MaxAge, 66051) >>
  /\ Len(mcall.data) = 15
  /\ mcall.err = "Truncated"
  /\ mcall.offset = 14

\* ------------------------------------------------------------------------
\* Claims about clearing options (options.go)
\* ------------------------------------------------------------------------
\* the definitions a caller asks about: those stored before the call and
\* those the callers use
AskedDefs == {mbefore[i].OptionDef : i \in 1..Len(mbefore)} \cup SetAllDefs

\* C21: after ClearOptions returns, Contains(def) is false and Get(def)
\* reports absence for every definition and encoding the collection emits
\* no option bytes; ClearOption(def) removes exactly the options whose code
\* equals the code of def and leaves the others in order.
C21_Clear ==
  /\ mcall.op = "ClearOptions" =>
       /\ \A def \in AskedDefs : ~Contains(mopts, def) /\ ~Get(mopts, def).ok
       /\ OptionsAppendBinary(mopts, <<>>).data = <<>>
  /\ mcall.op = "ClearOption" =>
       mopts = SelectSeq(mbefore,
                         LAMBDA v : v.OptionDef.Code # mcall.def.Code)

\* ------------------------------------------------------------------------
\* Claims about the request codec (request.go)
\* ------------------------------------------------------------------------
\* the request of the last call with its Path emptied
EmptyPathRequest == [mcall.req EXCEPT !.Path = <<>>]

\* the Uri-Path values of the message a request call produced
EncodedPath ==
  GetAllString(MessageDecode(ZeroMessage, mcall.out, 0).msg.Options,
               URIPath).values

\* C22: encoding a Request whose Path is "/" completes without error or
\* panic and produces the same bytes (no Uri-Path option) as the same
\* Request with an empty Path; any other path is split on "/" into Uri-Path
\* options on encode and the segments are joined with "/" on decode.
C22_RootPath ==
  /\ (mcall.op = "RequestAppendBinary" /\ mcall.req.Path = << Slash >>) =>
       /\ ~mcall.panic
       /\ [data |-> mcall.out, err |-> mcall.err, panic |-> mcall.panic]
            = RequestAppendBinary(EmptyPathRequest, <<>>)
  /\ ( /\ mcall.op = "RequestAppendBinary"
       /\ mcall.req.Path \notin {<<>>, << Slash >>}
       /\ mcall.req.Options = <<>>
       /\ ~mcall.panic
       /\ mcall.err = "nil" ) =>
       EncodedPath = SplitSeq(TrimPrefix(mcall.req.Path))
  /\ (mcall.op = "RequestDecode" /\ mcall.err = "nil") =>
       mcall.got.Path
         = DecodePathLoop(GetAllString(mcall.got.Options, URIPath).values,
                          1, <<>>)

\* ------------------------------------------------------------------------
\* Claims about the RetransmitQueue called directly (conn.go)
\* ------------------------------------------------------------------------
\* what the last Retransmit call did with the entry op of the queue: the
\* entries of that id it kept, those it returned as due, and the errors it
\* reported for it
KeptOf(op) == {queue[i] : i \in {j \in 1..Len(queue) : queue[j].id = op.id}}
SentOf(op) ==
  {mcall.due[i] : i \in {j \in 1..Len(mcall.due) : mcall.due[j].id = op.id}}
ErrorsOf(op) ==
  {mcall.dropped[i].err :
     i \in {j \in 1..Len(mcall.dropped) : mcall.dropped[j].id = op.id}}
\* the entry after the backoff the claim describes
BackedOff(op) ==
  [id |-> op.id, start |-> op.start, retransmit |-> op.retransmit + 1,
   timeout |-> op.timeout + op.timeout,
   next |-> mcall.now + op.timeout + op.timeout]
\* the row of the table that applies to op at the time of the call
TableRow(op) ==
  IF op.next > mcall.now THEN 1
  ELSE IF op.retransmit = opts.MaxRetransmit THEN 2
  ELSE IF op.start + opts.MaxTransmitWait < mcall.now THEN 3
  ELSE IF op.start + opts.MaxTransmitSpan < mcall.now THEN 4
  ELSE 5

\* C23: Retransmit(now) applies to every entry exactly the first matching
\* row: next > now: kept unchanged, not sent; retransmits = MAX_RETRANSMIT:
\* removed with RetransmitRetryLimit; start + MAX_TRANSMIT_WAIT < now:
\* removed with RetransmitWaitLimit; start + MAX_TRANSMIT_SPAN < now: kept
\* unchanged, not sent; otherwise the timeout is doubled, retransmits is
\* incremented, next = now + timeout and the entry is returned as due.
C23_RetransmitTable ==
  mcall.op = "Retransmit" =>
    \A k \in 1..Len(mcall.before) :
      \E op \in {mcall.before[k]} :
        \E row \in {TableRow(op)} :
          /\ row \in {1, 4} =>
               KeptOf(op) = {op} /\ SentOf(op) = {} /\ ErrorsOf(op) = {}
          /\ row = 2 =>
               KeptOf(op) = {} /\ SentOf(op) = {}
                 /\ ErrorsOf(op) = {"RetryLimit"}
          /\ row = 3 =>
               KeptOf(op) = {} /\ SentOf(op) = {}
                 /\ ErrorsOf(op) = {"WaitLimit"}
          /\ row = 5 =>
               KeptOf(op) = {BackedOff(op)} /\ SentOf(op) = {BackedOff(op)}
                 /\ ErrorsOf(op) = {}

\* a call that finds one entry past MAX_TRANSMIT_SPAN and one entry due
C23_Witness ==
  /\ mcall.op = "Retransmit"
  /\ \E k \in 1..Len(mcall.before) : TableRow(mcall.before[k]) = 4
  /\ \E k \in 1..Len(mcall.before) : TableRow(mcall.before[k]) = 5

\* the smallest next - t among the entries of a non-empty queue
MinWait(data, t) ==
  CHOOSE d \in {data[i].next - t : i \in 1..Len(data)} :
    \A i \in 1..Len(data) : d <= data[i].next - t

\* C24: Next(now) returns ACK_TIMEOUT when the queue is empty and otherwise
\* exactly the minimum over the queued entries of next - now, also when
\* every entry's next is later than now + ACK_TIMEOUT.
C24_NextMinimum ==
  mcall.op = "Next" =>
    mcall.period = IF Len(queue) = 0 THEN opts.ACKTimeout
                   ELSE MinWait(queue, mcall.now)

\* ------------------------------------------------------------------------
\* Claims about a failing Options.Decode (options.go)
\* ------------------------------------------------------------------------
\* the number of bytes the first k of the wire options take
WireEnd(items, k) == Len(WireBytes(SubSeq(items, 1, k)))
\* the value of a wire option has a length its schema definition rejects
BadLength(item) ==
  \E def \in {SchemaOption(DefaultSchema, item.OptionDef.Code)} :
    GetLength(item) < def.MinLen \/ GetLength(item) > def.MaxLen
\* the index of the first wire option Options.Decode has to reject
FirstBad(items) ==
  CHOOSE k \in 1..Len(items) :
    BadLength(items[k]) /\ \A j \in 1..(k - 1) : ~BadLength(items[j])
\* the number of bytes of the input the failed call consumed
Consumed == Len(mcall.data) - Len(mcall.rest)

\* C25: when Options.Decode fails on an option it returns the error with the
\* remaining input at the failure position, inside the failing option, and
\* leaves the receiving collection as it was before the call: none of the
\* options decoded before the failing one is stored.
C25_DecodeFailureFrame ==
  (mcall.op \in {"OptionsDecode", "OptionsDecodeInvalid"} /\ mcall.err # "nil") =>
    /\ mopts = mbefore
    /\ \E k \in 1..Len(mcall.items) : BadLength(mcall.items[k])
    /\ Consumed > WireEnd(mcall.items, FirstBad(mcall.items) - 1)
    /\ Consumed <= WireEnd(mcall.items, FirstBad(mcall.items))
    /\ mcall.rest = SubSeq(mcall.data, Consumed + 1, Len(mcall.data))

\* a call on a non-empty collection that fails on its second option, after
\* an option the schema recognizes
C25_Witness ==
  /\ mcall.op = "OptionsDecodeInvalid"
  /\ mcall.err # "nil"
  /\ Len(mbefore) > 0
  /\ FirstBad(mcall.items) = 2
  /\ Recognized(SchemaOption(DefaultSchema, mcall.items[1].OptionDef.Code))

\* ------------------------------------------------------------------------
\* Claims about the timer of the event loop (conn.go)
\* ------------------------------------------------------------------------
\* C26: whenever the event loop re-arms its timer after handling an event
\* at time now, the period Next(now) is strictly positive, also when an
\* entry is kept because start + MAX_TRANSMIT_SPAN < now with its next
\* already <= now.  Stated for the re-arm that follows a sweep (the event
\* taken is neither done, add nor remove) of a connection with a positive
\* ACKTimeout.
C26_PositivePeriod ==
  [][(opts.ACKTimeout > 0 /\ run /\ epc' = "run" /\ add' = add
        /\ remove' = remove) => timerAt' > now]_vars

\* ------------------------------------------------------------------------
\* Claims about the fate of accepted entries (conn.go)
\* ------------------------------------------------------------------------
\* the number of times the error handler was called for message w with one
\* of the errors that end an entry
Reports(w) ==
  errs[w]["RetryLimit"] + errs[w]["WaitLimit"] + errs[w]["ErrClosed"]
\* Conn.Write of the Confirmable w has returned success
Accepted(w) == wtype[w] = Confirmable /\ wpc[w] = "done" /\ wres[w] = "nil"

\* C27: every Confirmable for which Conn.Write returned success is
\* eventually cancelled by a matching ACK/RST or reported exactly once to
\* the error handler, also when Close races with the Write.  Stated for the
\* states in which the event loop has exited, after which nothing is
\* reported any more: an accepted message whose ACK/RST no Read has
\* returned has been reported exactly once; and no message is ever reported
\* twice.
C27_AcceptedReported ==
  /\ \A w \in Writers : Reports(w) <= 1
  /\ \A w \in Writers :
       (epc = "exit" /\ Accepted(w) /\ w \notin ackReturned) => Reports(w) = 1

\* the entries of the queue before the last Retransmit call that the table
\* drops, and those it finds due
IsDropped(op) == TableRow(op) \in {2, 3}
IsDue(op) == TableRow(op) = 5
\* an entry as the call has to leave it in the queue
Updated(op) == IF IsDue(op) THEN BackedOff(op) ELSE op
\* the entries of s that are not dropped, as the call has to leave them,
\* those that are due, and the ids of those that are dropped, in the order
\* of s
RECURSIVE KeptInOrder(_, _)
KeptInOrder(s, k) ==
  IF k > Len(s) THEN <<>>
  ELSE IF IsDropped(s[k]) THEN KeptInOrder(s, k + 1)
  ELSE << Updated(s[k]) >> \o KeptInOrder(s, k + 1)
RECURSIVE DueInOrder(_, _)
DueInOrder(s, k) ==
  IF k > Len(s) THEN <<>>
  ELSE IF IsDue(s[k]) THEN << BackedOff(s[k]) >> \o DueInOrder(s, k + 1)
  ELSE DueInOrder(s, k + 1)
RECURSIVE DroppedInOrder(_, _)
DroppedInOrder(s, k) ==
  IF k > Len(s) THEN <<>>
  ELSE IF IsDropped(s[k]) THEN << s[k].id >> \o DroppedInOrder(s, k + 1)
  ELSE DroppedInOrder(s, k + 1)

\* C28: Retransmit(now) compacts the queue in place without loss,
\* duplication or reordering: afterwards the queue holds exactly the entries
\* that were not dropped, each once, in their original order (due entries
\* with their updated fields), the error handler has been called exactly
\* once per dropped entry, and the returned due list holds exactly the due
\* entries of this call in insertion order, whatever the slice passed in
\* for reuse contained.
C28_InPlaceCompaction ==
  mcall.op = "Retransmit" =>
    /\ queue = KeptInOrder(mcall.before, 1)
    /\ mcall.due = DueInOrder(mcall.before, 1)
    /\ [k \in 1..Len(mcall.dropped) |-> mcall.dropped[k].id]
         = DroppedInOrder(mcall.before, 1)

\* a call with a used slice that drops the first entry of the queue and
\* finds the second one due
C28_Witness ==
  /\ mcall.op = "Retransmit"
  /\ mcall.reuse # <<>>
  /\ Len(mcall.before) = 2
  /\ IsDropped(mcall.before[1])
  /\ IsDue(mcall.before[2])

\* ------------------------------------------------------------------------
\* Claims about decoding into a used Message (message.go)
\* ------------------------------------------------------------------------
\* C29: the result of Message.Decode depends only on the input bytes, not
\* on the prior contents of the receiving Message: decoding a buffer into a
\* Message that holds an earlier decoded message yields the header, options
\* and payload that decoding it into a zero Message yields, in particular
\* an empty payload when the buffer carries no payload marker.
C29_DecodeIgnoresReceiver ==
  (mcall.op = "MessageDecodeAgain" /\ mcall.err = "nil") =>
    mgot = MessageDecode(ZeroMessage, mcall.data, 0).msg

\* ------------------------------------------------------------------------
\* Claims about the lifetime of queue entries (conn.go)
\* ------------------------------------------------------------------------
\* one writer and one closer, under options whose limits fall within the
\* modelled time span
LiveOptionsSet == {RetryOptions, SpanOptions}
LiveInit ==
  \E o \in LiveOptionsSet :
    ConnInit(o) /\ SeqInit(0) /\ CodecInit(<<>>, ZeroMessage)

LiveNext ==
  \/ CloseSwap(1)
  \/ CloseSignal(1)
  \/ CloseDelegate(1)
  \/ \E tpe \in TypesOf(2) : WriteLoad(2, tpe)
  \/ WriteTx(2)
  \/ ConnSelect
  \/ run
  \/ Tick

\* the event loop is scheduled whenever an event is ready, and time passes
LiveSpec == LiveInit /\ [][LiveNext]_vars /\ WF_vars(run) /\ WF_vars(Tick)

\* the table drops the entry op at a sweep at time t
DropsAt(op, t) ==
  /\ op.next <= t
  /\ op.retransmit = opts.MaxRetransmit \/ op.start + opts.MaxTransmitWait < t
\* the clock has reached the last instant of the model with the entry of
\* message w in the queue, at an age at which the table does not drop it
AliveAtHorizon(w) ==
  /\ now = MaxTime
  /\ \A i \in EntriesOf(w) : ~DropsAt(queue[i], MaxTime)

\* C30: under fair scheduling of timer ticks every entry added to the
\* retransmit queue is eventually removed (ACK/RST, RetransmitRetryLimit,
\* RetransmitWaitLimit or close), including entries that are kept without
\* further backoff after MAX_TRANSMIT_SPAN has passed: no entry stays for
\* ever.  Within the modelled time span: an entry leaves the queue unless
\* the clock ends at an instant at which the table still keeps it.
C30_EntriesLeave ==
  \A w \in Writers :
    (EntriesOf(w) # {}) ~> (EntriesOf(w) = {} \/ AliveAtHorizon(w))

\* the Confirmable of writer 2 was never retransmitted: it stayed in the
\* queue past MAX_TRANSMIT_SPAN without backoff, and has left the queue by
\* RetransmitWaitLimit before the clock reached its last instant
C30_Witness ==
  /\ opts = SpanOptions
  /\ epc = "run"
  /\ now < MaxTime
  /\ wire[2] = 1
  /\ errs[2]["WaitLimit"] = 1
  /\ EntriesOf(2) = {}

========================================================================
